---- MODULE Spec2Model ----
(***************************************************************************)
(* A model of the second-brain finance bot: the self-validating domain     *)
(* entities (FinancialGoal, FinancialAccount, FinancialTransaction,        *)
(* AudioFile), the use cases that orchestrate them (transcribe, extract,   *)
(* save) and the two persistence pipelines that write the finance tables.  *)
(*                                                                         *)
(* Each subsystem has its own specification over its own variables; the    *)
(* variables of the other subsystems are held at their idle values.        *)
(***************************************************************************)
EXTENDS Integers, Sequences, FiniteSets, TLC

VARIABLES
  goal,       \* FinancialGoal: _targetAmount, _currentAmount, _status
  goalPrev,   \* the goal's fields before the last call
  goalCall,   \* the last call on the goal: op, threw
  acct,       \* FinancialAccount: _balance
  acctPrev,   \* the balance before the last call
  acctCall,   \* the last call on the account: op, arg, threw
  tr,         \* one TranscribeAudioUseCase.execute: request, position, calls made
  proc,       \* the executions of the finance use cases, one record each
  txRows,     \* table financial_transactions
  acctRows,   \* table financial_accounts
  goalRows    \* table financial_goals

goalVars == <<goal, goalPrev, goalCall>>
acctVars == <<acct, acctPrev, acctCall>>
dbVars == <<txRows, acctRows, goalRows>>
pipeVars == <<proc, txRows, acctRows, goalRows>>
vars == <<goal, goalPrev, goalCall, acct, acctPrev, acctCall, tr,
          proc, txRows, acctRows, goalRows>>
nonGoalVars == <<acctVars, tr, pipeVars>>
nonAcctVars == <<goalVars, tr, pipeVars>>
nonTrVars == <<goalVars, acctVars, pipeVars>>
nonPipeVars == <<goalVars, acctVars, tr>>

(***************************************************************************)
(* Bounds of the model.                                                    *)
(***************************************************************************)
MaxAmount == 3     \* largest amount passed to a call, and cap of running sums
MinAmount == 2     \* amounts range over -MinAmount .. MaxAmount
NumExec == 2       \* use-case executions that can be in flight together
MaxRaw == 3        \* raw transactions in one extraction response
MaxTx == 2         \* transactions in one batch to save
MaxAccts == 2      \* accounts in one batch to save
MaxGoals == 1      \* goals in one batch to save
MaxBatch == 2      \* raw transactions in one message taken through to the store
MaxRows == 2       \* stored transactions a totals query runs over
MaxClock == 2      \* milliseconds the clock is read in

(***************************************************************************)
(* JavaScript values.  A `number` is a finite number or NaN; an optional   *)
(* number may also be undefined.  Every relational operator is false when  *)
(* an operand is NaN, and arithmetic on NaN yields NaN.                    *)
(***************************************************************************)
Num(i) == [k |-> "num", v |-> i]
NaN == [k |-> "nan", v |-> 0]
Undefined == [k |-> "undef", v |-> 0]

IsNum(x) == x.k = "num"
isNaN(x) == x.k = "nan"
JsLt(a, b) == IsNum(a) /\ IsNum(b) /\ a.v < b.v
JsLe(a, b) == IsNum(a) /\ IsNum(b) /\ a.v <= b.v
JsGt(a, b) == IsNum(a) /\ IsNum(b) /\ a.v > b.v
JsGe(a, b) == IsNum(a) /\ IsNum(b) /\ a.v >= b.v
JsAdd(a, b) == IF IsNum(a) /\ IsNum(b) THEN Num(a.v + b.v) ELSE NaN
JsSub(a, b) == IF IsNum(a) /\ IsNum(b) THEN Num(a.v - b.v) ELSE NaN

\* The numbers a caller can pass: negative, zero, positive, and NaN.
Numbers == {Num(i) : i \in (0 - MinAmount)..MaxAmount} \cup {NaN}
\* A running sum stays inside the modelled range.
InRange(x) == IsNum(x) => (x.v >= 0 - MinAmount /\ x.v <= MaxAmount)

(***************************************************************************)
(* Strings are sequences of characters; a missing (undefined) string and   *)
(* the empty string are both falsy and are both the empty sequence.        *)
(***************************************************************************)
RECURSIVE TrimLeft(_)
TrimLeft(s) == IF s # <<>> /\ Head(s) = " " THEN TrimLeft(Tail(s)) ELSE s
RECURSIVE TrimRight(_)
TrimRight(s) ==
  IF s # <<>> /\ s[Len(s)] = " " THEN TrimRight(SubSeq(s, 1, Len(s) - 1)) ELSE s
trim(s) == TrimRight(TrimLeft(s))
Truthy(s) == s # <<>>
\* `!s || s.trim().length === 0`
IsBlank(s) == ~Truthy(s) \/ Len(trim(s)) = 0

Strings == {<<>>, <<" ">>, <<"a">>, <<" ", "a">>}

(***************************************************************************)
(* FinancialGoal                                                           *)
(***************************************************************************)
GoalStatuses == {"active", "completed", "paused", "cancelled"}

\* Each validate* is TRUE when the validation throws.
GoalValidateUserId(userId) == userId = 0 \/ userId <= 0
GoalValidateTitle(title) == IsBlank(title)
validateTargetAmount(targetAmount) == JsLe(targetAmount, Num(0))
validateCurrentAmount(currentAmount) == JsLt(currentAmount, Num(0))
GoalValidateCategory(category) == IsBlank(category)

\* TRUE when `new FinancialGoal(...)` throws.
FinancialGoalThrows(userId, title, targetAmount, currentAmount, category) ==
  \/ GoalValidateUserId(userId)
  \/ GoalValidateTitle(title)
  \/ validateTargetAmount(targetAmount)
  \/ validateCurrentAmount(currentAmount)
  \/ GoalValidateCategory(category)

FinancialGoal(targetAmount, currentAmount, status) ==
  [targetAmount |-> targetAmount, currentAmount |-> currentAmount, status |-> status]

\* The result of a mutator: the goal after the call and whether it threw.
Returned(g) == [g |-> g, threw |-> FALSE]
Thrown(g) == [g |-> g, threw |-> TRUE]

\* A completion that overrides a paused or cancelled status.
CompleteIfReachedAnyStatus(g) ==
  IF JsGe(g.currentAmount, g.targetAmount)
  THEN [g EXCEPT !.status = "completed"]
  ELSE g

\* The completion side effect that ends each amount mutator.
CompleteIfReached(g) ==
  IF JsGe(g.currentAmount, g.targetAmount) /\ g.status = "active"
  THEN [g EXCEPT !.status = "completed"]
  ELSE g

updateTargetAmount(g, targetAmount) ==
  IF validateTargetAmount(targetAmount)
  THEN Thrown(g)
  ELSE Returned(CompleteIfReached([g EXCEPT !.targetAmount = targetAmount]))

updateCurrentAmount(g, currentAmount) ==
  IF validateCurrentAmount(currentAmount)
  THEN Thrown(g)
  ELSE Returned(CompleteIfReached([g EXCEPT !.currentAmount = currentAmount]))

addProgress(g, amount) ==
  IF JsLe(amount, Num(0))
  THEN Thrown(g)
  ELSE Returned(CompleteIfReached(
         [g EXCEPT !.currentAmount = JsAdd(g.currentAmount, amount)]))

markAs(g, status) == Returned([g EXCEPT !.status = status])

NoCall == [op |-> "new", threw |-> FALSE]

GoalInit ==
  /\ \E userId \in {0, 1}, title \in Strings, category \in Strings,
        targetAmount \in Numbers, currentAmount \in Numbers, status \in GoalStatuses :
       /\ ~FinancialGoalThrows(userId, title, targetAmount, currentAmount, category)
       /\ goal = FinancialGoal(targetAmount, currentAmount, status)
  /\ goalPrev = goal
  /\ goalCall = NoCall

GoalIdle ==
  /\ goal = FinancialGoal(Num(1), Num(0), "active")
  /\ goalPrev = goal
  /\ goalCall = NoCall

GoalApply(op, r) ==
  /\ InRange(r.g.currentAmount)
  /\ goal' = r.g
  /\ goalPrev' = goal
  /\ goalCall' = [op |-> op, threw |-> r.threw]
  /\ UNCHANGED nonGoalVars

GoalUpdateTargetAmount ==
  \E targetAmount \in Numbers :
    GoalApply("updateTargetAmount", updateTargetAmount(goal, targetAmount))

GoalUpdateCurrentAmount ==
  \E currentAmount \in Numbers :
    GoalApply("updateCurrentAmount", updateCurrentAmount(goal, currentAmount))

GoalAddProgress ==
  \E amount \in Numbers : GoalApply("addProgress", addProgress(goal, amount))

GoalMarkAsActive == GoalApply("markAsActive", markAs(goal, "active"))
GoalMarkAsCompleted == GoalApply("markAsCompleted", markAs(goal, "completed"))
GoalMarkAsPaused == GoalApply("markAsPaused", markAs(goal, "paused"))
GoalMarkAsCancelled == GoalApply("markAsCancelled", markAs(goal, "cancelled"))

(***************************************************************************)
(* FinancialAccount                                                        *)
(***************************************************************************)
AccountTypes == {"checking", "savings", "credit", "investment", "cash"}

AcctValidateUserId(userId) == userId = 0 \/ userId <= 0
validateName(name) == IsBlank(name)
AcctValidateType(type) == type \notin AccountTypes
\* `if (isNaN(balance)) throw`
validateBalance(balance) == isNaN(balance)

\* TRUE when `new FinancialAccount(...)` throws.
FinancialAccountThrows(userId, name, type, balance) ==
  \/ AcctValidateUserId(userId)
  \/ validateName(name)
  \/ AcctValidateType(type)
  \/ (balance # Undefined /\ validateBalance(balance))

updateBalance(b, balance) ==
  IF balance # Undefined /\ validateBalance(balance) THEN Thrown(b) ELSE Returned(balance)

deposit(b, amount) ==
  IF JsLe(amount, Num(0)) THEN Thrown(b)
  ELSE IF b = Undefined THEN Returned(amount)
  ELSE Returned(JsAdd(b, amount))

withdraw(b, amount) ==
  IF JsLe(amount, Num(0)) THEN Thrown(b)
  ELSE IF b = Undefined THEN Thrown(b)
  ELSE IF JsLt(b, amount) THEN Thrown(b)
  ELSE Returned(JsSub(b, amount))

AcctInit ==
  /\ \E userId \in {0, 1}, name \in Strings, type \in {"checking", "credit", "loan"},
        balance \in Numbers \cup {Undefined} :
       /\ ~FinancialAccountThrows(userId, name, type, balance)
       /\ acct = balance
  /\ acctPrev = acct
  /\ acctCall = [op |-> "new", arg |-> Undefined, threw |-> FALSE]

AcctIdle ==
  /\ acct = Undefined
  /\ acctPrev = Undefined
  /\ acctCall = [op |-> "new", arg |-> Undefined, threw |-> FALSE]

AcctApply(op, arg, r) ==
  /\ InRange(r.g)
  /\ acct' = r.g
  /\ acctPrev' = acct
  /\ acctCall' = [op |-> op, arg |-> arg, threw |-> r.threw]
  /\ UNCHANGED nonAcctVars

AcctUpdateBalance ==
  \E balance \in Numbers \cup {Undefined} :
    AcctApply("updateBalance", balance, updateBalance(acct, balance))

AcctDeposit ==
  \E amount \in Numbers : AcctApply("deposit", amount, deposit(acct, amount))

AcctWithdraw ==
  \E amount \in Numbers : AcctApply("withdraw", amount, withdraw(acct, amount))

AcctNext ==
  \/ AcctUpdateBalance
  \/ AcctDeposit
  \/ AcctWithdraw

(***************************************************************************)
(* AudioFile and TranscribeAudioUseCase                                    *)
(***************************************************************************)
SupportedTypes ==
  {"audio/mpeg", "audio/mp3", "audio/wav", "audio/ogg", "audio/flac", "audio/aac"}

\* The default limitInBytes of AudioFile.isWithinSizeLimit.
SizeLimit == 20 * 1024 * 1024

isSupportedFormat(mimeType) == mimeType \in SupportedTypes
\* A size check that also rejects a file of exactly the limit.
isWithinSizeLimitExclusive(fileSize) == fileSize < SizeLimit
isWithinSizeLimit(fileSize) == fileSize <= SizeLimit

\* A validateRequest that checks the size before the format.
validateRequestSizeFirst(request) ==
  IF ~request.hasFile THEN "required"
  ELSE IF ~isWithinSizeLimit(request.fileSize) THEN "size"
  ELSE IF ~isSupportedFormat(request.mimeType) THEN "format"
  ELSE "none"

\* validateRequest: the error it throws, "none" when it returns.
validateRequest(request) ==
  IF ~request.hasFile THEN "required"
  ELSE IF ~isSupportedFormat(request.mimeType) THEN "format"
  ELSE IF ~isWithinSizeLimit(request.fileSize) THEN "size"
  ELSE "none"

\* A validateText that rejects the empty text only.
TranscriptionThrowsOnEmptyOnly(userId, text) == Len(text) = 0 \/ userId = 0 \/ userId <= 0
\* Transcription.validateText and validateUserId: TRUE when the constructor throws.
TranscriptionThrows(userId, text) == IsBlank(text) \/ userId = 0 \/ userId <= 0

MimeTypes == {"audio/ogg", "audio/mpeg", "video/mp4", "audio/OGG"}
FileSizes == {1, SizeLimit - 1, SizeLimit, SizeLimit + 1, 2 * SizeLimit}

TrRequests ==
  [hasFile : {TRUE}, mimeType : MimeTypes, fileSize : FileSizes,
   isUrl : BOOLEAN, userId : {0, 1}]
    \cup
  [hasFile : {FALSE}, mimeType : {"audio/ogg"}, fileSize : {1},
   isUrl : {TRUE}, userId : {1}]

TrStart(request) ==
  [pc |-> "validate", request |-> request, fetchCalls |-> 0, portCalls |-> 0,
   text |-> <<>>, error |-> "none", errorMime |-> "none"]

TrInit == \E request \in TrRequests : tr = TrStart(request)

TrIdle ==
  tr = [pc |-> "idle",
        request |-> [hasFile |-> FALSE, mimeType |-> "audio/ogg", fileSize |-> 1,
                     isUrl |-> TRUE, userId |-> 1],
        fetchCalls |-> 0, portCalls |-> 0, text |-> <<>>, error |-> "none",
        errorMime |-> "none"]

\* The catch of execute logs the error and re-throws it unchanged.
TrThrow(t, error) ==
  [t EXCEPT !.pc = "threw", !.error = error,
            !.errorMime = IF error = "format" THEN t.request.mimeType ELSE "none"]

\* execute up to and including validateRequest.
TrValidate ==
  /\ tr.pc = "validate"
  /\ LET error == validateRequest(tr.request) IN
       tr' = IF error = "none" THEN [tr EXCEPT !.pc = "fetch"] ELSE TrThrow(tr, error)
  /\ UNCHANGED nonTrVars

\* getAudioBuffer: a URL is fetched (and the fetch may fail); a local path is
\* not implemented; every failure is re-thrown as "Failed to fetch audio file".
TrFetch ==
  /\ tr.pc = "fetch"
  /\ \E ok \in BOOLEAN :
       LET t == [tr EXCEPT !.fetchCalls = IF tr.request.isUrl THEN @ + 1 ELSE @] IN
         tr' = IF tr.request.isUrl /\ ok THEN [t EXCEPT !.pc = "transcribe"]
               ELSE TrThrow(t, "fetch")
  /\ UNCHANGED nonTrVars

\* speechToTextPort.transcribe: returns some text or throws.
TrTranscribe ==
  /\ tr.pc = "transcribe"
  /\ \E ok \in BOOLEAN, text \in Strings :
       LET t == [tr EXCEPT !.portCalls = @ + 1] IN
         tr' = IF ok THEN [t EXCEPT !.pc = "wrap", !.text = text]
               ELSE TrThrow(t, "port")
  /\ UNCHANGED nonTrVars

\* new Transcription(...) and the returned DTO.
TrWrap ==
  /\ tr.pc = "wrap"
  /\ tr' = IF TranscriptionThrows(tr.request.userId, tr.text)
           THEN TrThrow(tr, "entity")
           ELSE [tr EXCEPT !.pc = "returned"]
  /\ UNCHANGED nonTrVars

TrNext ==
  \/ TrValidate
  \/ TrFetch
  \/ TrTranscribe
  \/ TrWrap

(***************************************************************************)
(* FinancialTransaction                                                    *)
(***************************************************************************)
TransactionTypes == {"income", "expense", "transfer"}

\* Each validate* is TRUE when the validation throws.
TxValidateUserId(userId) == userId = 0 \/ userId <= 0
validateAmount(amount) == JsLe(amount, Num(0))
validateType(type) == type \notin TransactionTypes
validateCategory(category) == IsBlank(category)
validateDescription(description) == IsBlank(description)
\* `!(date instanceof Date) || isNaN(date.getTime())`: a date is a valid Date
\* object ("Date"), a Date object holding NaN ("InvalidDate") or, as JSON
\* delivers it, a string ("string").
validateDate(date) == date # "Date"

\* TRUE when `new FinancialTransaction(...)` throws.
FinancialTransactionThrows(userId, amount, type, category, description, date) ==
  \/ TxValidateUserId(userId)
  \/ validateAmount(amount)
  \/ validateType(type)
  \/ validateCategory(category)
  \/ validateDescription(description)
  \/ validateDate(date)

\* JavaScript truthiness of a number: neither undefined, NaN nor 0.
NumTruthy(x) == IsNum(x) /\ x.v # 0

(***************************************************************************)
(* ExtractFinancialDataUseCase: mapping the port's raw data to entities.   *)
(* A raw item is what JSON.parse delivers: an object whose fields may be   *)
(* missing, or null.                                                       *)
(***************************************************************************)
NullItem == [null |-> TRUE]

RawTx(amount, type, category, description, date) ==
  [null |-> FALSE, amount |-> amount, type |-> type, category |-> category,
   description |-> description, date |-> date]

\* Reading a field of a null item is a TypeError, raised outside the item's try.
TxFieldsPresent(t) ==
  NumTruthy(t.amount) /\ t.type # "" /\ Truthy(t.category) /\ Truthy(t.description)

\* `transaction.date || new Date()`
DateOrNow(date) == IF date = "absent" THEN "Date" ELSE date

\* The day `new Date()` falls on; a date column holds a day.
Today == 1

TxEntity(userId, t) ==
  [userId |-> userId, amount |-> t.amount, type |-> t.type, category |-> t.category,
   description |-> t.description, date |-> DateOrNow(t.date), day |-> Today]

\* The transactions loop: [threw, out], threw when the loop itself raises.
RECURSIVE MapTransactions(_, _)
MapTransactions(raw, userId) ==
  IF raw = <<>> THEN [threw |-> FALSE, out |-> <<>>]
  ELSE LET t == Head(raw) IN
    IF t.null THEN [threw |-> TRUE, out |-> <<>>]
    ELSE LET rest == MapTransactions(Tail(raw), userId) IN
      IF TxFieldsPresent(t)
         /\ ~FinancialTransactionThrows(userId, t.amount, t.type, t.category,
                                        t.description, DateOrNow(t.date))
      THEN [threw |-> rest.threw, out |-> <<TxEntity(userId, t)>> \o rest.out]
      ELSE rest

\* The 'Error mapping transaction entity' warnings of the transactions loop:
\* one for each item that has the four fields and whose constructor throws.
RECURSIVE TransactionWarnings(_, _)
TransactionWarnings(raw, userId) ==
  IF raw = <<>> THEN 0
  ELSE LET t == Head(raw) IN
    IF t.null THEN 0
    ELSE (IF TxFieldsPresent(t)
             /\ FinancialTransactionThrows(userId, t.amount, t.type, t.category,
                                           t.description, DateOrNow(t.date))
          THEN 1 ELSE 0) + TransactionWarnings(Tail(raw), userId)

RawAcct(name, type, balance) ==
  [null |-> FALSE, name |-> name, type |-> type, balance |-> balance]

\* `bank || null`: the value written to the bank column.
BankOrNull(bank) == IF bank \in {"undefined", "null", ""} THEN "null" ELSE bank

\* The raw accounts carry no bank; the constructor's default isActive is true.
AcctEntity(userId, a) ==
  [userId |-> userId, name |-> a.name, type |-> a.type, balance |-> a.balance,
   bank |-> "undefined", isActive |-> TRUE]

RECURSIVE MapAccounts(_, _)
MapAccounts(raw, userId) ==
  IF raw = <<>> THEN [threw |-> FALSE, out |-> <<>>]
  ELSE LET a == Head(raw) IN
    IF a.null THEN [threw |-> TRUE, out |-> <<>>]
    ELSE LET rest == MapAccounts(Tail(raw), userId) IN
      IF Truthy(a.name) /\ a.type # ""
         /\ ~FinancialAccountThrows(userId, a.name, a.type, a.balance)
      THEN [threw |-> rest.threw, out |-> <<AcctEntity(userId, a)>> \o rest.out]
      ELSE rest

RawGoal(title, targetAmount, currentAmount, category) ==
  [null |-> FALSE, title |-> title, targetAmount |-> targetAmount,
   currentAmount |-> currentAmount, category |-> category]

\* The goals loop passes no status: the constructor's default is 'active'.
GoalEntity(userId, g) ==
  [userId |-> userId, title |-> g.title,
   goal |-> FinancialGoal(g.targetAmount, g.currentAmount, "active")]

RECURSIVE MapGoals(_, _)
MapGoals(raw, userId) ==
  IF raw = <<>> THEN [threw |-> FALSE, out |-> <<>>]
  ELSE LET g == Head(raw) IN
    IF g.null THEN [threw |-> TRUE, out |-> <<>>]
    ELSE LET rest == MapGoals(Tail(raw), userId) IN
      IF Truthy(g.title) /\ g.targetAmount # Undefined /\ g.currentAmount # Undefined
         /\ Truthy(g.category)
         /\ ~FinancialGoalThrows(userId, g.title, g.targetAmount, g.currentAmount,
                                 g.category)
      THEN [threw |-> rest.threw, out |-> <<GoalEntity(userId, g)>> \o rest.out]
      ELSE rest

\* Raw transactions: two valid items and every item that departs from a valid
\* one in a single field, and null.
ValidRawTx == RawTx(Num(2), "expense", <<"a">>, <<"a">>, "absent")
RawTxs ==
  {ValidRawTx, RawTx(Num(3), "income", <<" ", "a">>, <<"a">>, "absent"), NullItem}
    \cup {[ValidRawTx EXCEPT !.amount = x] : x \in {Undefined, Num(0), Num(0 - 1)}}
    \cup {[ValidRawTx EXCEPT !.type = x] : x \in {"", "bogus"}}
    \cup {[ValidRawTx EXCEPT !.category = x] : x \in {<<>>, <<" ">>}}
    \cup {[ValidRawTx EXCEPT !.description = x] : x \in {<<>>, <<" ">>}}
    \cup {[ValidRawTx EXCEPT !.date = x] : x \in {"Date", "InvalidDate", "string"}}

RawAccts ==
  {RawAcct(<<"a">>, "checking", Undefined), RawAcct(<<"a">>, "savings", Num(3)),
   RawAcct(<<" ">>, "checking", Num(2)), RawAcct(<<"a">>, "loan", Num(0))}

RawGoals ==
  {RawGoal(<<"a">>, Num(2), Num(0), <<"a">>), RawGoal(<<"a">>, Num(2), Num(3), <<"a">>),
   RawGoal(<<"a">>, Num(0), Num(0), <<"a">>)}

SeqsUpTo(S, n) == UNION {[1..k -> S] : k \in 0..n}

Execs == 1..NumExec

NoRow == [id |-> 0]
Null == [k |-> "null", v |-> 0]
NoData == [transactions |-> <<>>, accounts |-> <<>>, goals |-> <<>>]

\* The totals a summary or a totals query has computed so far.
NoSummary ==
  [op |-> "none", userId |-> 0, startDate |-> 0, endDate |-> 0,
   totalIncome |-> 0, totalExpenses |-> 0, netBalance |-> 0]

\* The path of a handler's temporary file: audio_<userId>_<Date.now()>.ogg;
\* NoPath before the handler has composed it.
TempPath(userId, now) == [userId |-> userId, now |-> now]
NoPath == TempPath(0, 0)

\* What one handleAudio call has done so far: the replies it sent, whether its
\* temporary file is on disk, the environment calls that failed, the calls to
\* the extraction service, the model's response to the extraction call, the
\* rows its batch insert had written when the database transaction settled,
\* the warnings its mapping of raw transactions logged, whether the call
\* rejected, and the path of its temporary file.
NoHandler ==
  [kind |-> "voice", fileSize |-> 0, replies |-> <<>>, tempFile |-> FALSE,
   failed |-> {}, extractCalls |-> 0, text |-> <<>>, response |-> "none",
   pending |-> 0, warnings |-> 0, rejected |-> FALSE, path |-> NoPath]

\* What generateContent gives an extraction call: text that parses as JSON,
\* text that does not, or a rejection.
ModelResponses == {"json", "malformed", "error"}

IdleProc ==
  [pc |-> "idle", chain |-> "none", userId |-> 1, raw |-> NoData, confidence |-> Num(0),
   data |-> NoData, i |-> 1, existing |-> NoRow,
   transactionIds |-> <<>>, accountIds |-> <<>>, goalIds |-> <<>>, calls |-> <<>>,
   matching |-> 0, before |-> Null, acctLog |-> <<>>, summary |-> NoSummary,
   h |-> NoHandler]

PipeIdle ==
  /\ proc = [p \in Execs |-> IdleProc]
  /\ txRows = <<>>
  /\ acctRows = <<>>
  /\ goalRows = <<>>

\* `confidence: financialData.confidence || 0`, the port's mapping of the
\* model's confidence.
ConfidenceOrZero(c) == IF NumTruthy(c) THEN c ELSE Num(0)

\* ExtractFinancialDataUseCase.execute: the port call, which throws when the
\* model's response is not JSON or the model call rejects, then the three
\* mapping loops, which run without suspending.
ExtractExecute(p) ==
  /\ proc[p].pc = "extract"
  /\ \E response \in ModelResponses :
       LET q == [proc[p] EXCEPT !.h.response = response]
           portOk == response = "json"
           txs == MapTransactions(q.raw.transactions, q.userId)
           accts == MapAccounts(q.raw.accounts, q.userId)
           goals == MapGoals(q.raw.goals, q.userId)
       IN proc' = [proc EXCEPT ![p] =
            IF ~portOk THEN [q EXCEPT !.pc = "portThrew"]
            ELSE IF txs.threw \/ accts.threw \/ goals.threw THEN [q EXCEPT !.pc = "threw"]
            ELSE [q EXCEPT !.pc = "extracted",
                           !.h.warnings = TransactionWarnings(q.raw.transactions, q.userId),
                           !.confidence = ConfidenceOrZero(q.confidence),
                           !.data = [transactions |-> txs.out, accounts |-> accts.out,
                                     goals |-> goals.out]]]
  /\ UNCHANGED <<dbVars, nonPipeVars>>

ExtractInit ==
  /\ \E userId \in {0, 1}, transactions \in SeqsUpTo(RawTxs, MaxRaw),
        accounts \in SeqsUpTo(RawAccts, 1), goals \in SeqsUpTo(RawGoals, 1) :
       proc = [p \in Execs |->
         IF p = 1
         THEN [IdleProc EXCEPT !.pc = "extract", !.chain = "extract", !.userId = userId,
                 !.raw = [transactions |-> transactions, accounts |-> accounts,
                          goals |-> goals]]
         ELSE IdleProc]
  /\ txRows = <<>>
  /\ acctRows = <<>>
  /\ goalRows = <<>>

ExtractNext == \E p \in Execs : ExtractExecute(p)

(***************************************************************************)
(* The repositories and SaveFinancialDataUseCase.  Each awaited repository *)
(* call is one step; a call may throw.  `calls` and `acctLog` record what  *)
(* happened, for the properties.                                           *)
(***************************************************************************)
\* `account.balance || null`, the value written to the balance column.
BalanceOrNull(balance) == IF NumTruthy(balance) THEN balance ELSE Null

\* `result.balance ? parseFloat(result.balance) : undefined`: the driver
\* delivers a DECIMAL column as a non-empty string, or null.
ParseBalance(column) == IF column = Null THEN Undefined ELSE column

NewId(rows) == Len(rows) + 1

Matching(rows, userId, name) ==
  {k \in 1..Len(rows) : rows[k].userId = userId /\ rows[k].name = name}

Min(S) == CHOOSE x \in S : \A y \in S : x <= y

\* findByUserIdAndName: `.where({user_id, name}).first()`, mapped to an entity.
findByUserIdAndName(rows, userId, name) ==
  IF Matching(rows, userId, name) = {} THEN NoRow
  ELSE LET r == rows[Min(Matching(rows, userId, name))] IN
    [id |-> r.id, userId |-> r.userId, name |-> r.name, type |-> r.type,
     balance |-> ParseBalance(r.balance), bank |-> r.bank, isActive |-> r.isActive]

\* The row the repository's save inserts.
AccountRow(id, account) ==
  [id |-> id, userId |-> account.userId, name |-> account.name, type |-> account.type,
   balance |-> BalanceOrNull(account.balance), bank |-> BankOrNull(account.bank),
   isActive |-> account.isActive]

\* The repository's update: the row with the entity's id gets the entity's
\* name, type, bank, balance and active flag.
UpdateRows(rows, account) ==
  [k \in 1..Len(rows) |->
     IF rows[k].id = account.id
     THEN [rows[k] EXCEPT !.name = account.name, !.type = account.type,
                          !.bank = BankOrNull(account.bank),
                          !.balance = BalanceOrNull(account.balance),
                          !.isActive = account.isActive]
     ELSE rows[k]]

\* An update that writes the incoming account's type and bank.
UpdatedAccountFromIncoming(existing, incoming, balance) ==
  [existing EXCEPT !.balance = balance, !.type = incoming.type, !.bank = incoming.bank]
\* `existingAccount.updateBalance(account.balance)`: the entity handed to
\* update is the one that was found, with the new balance.
UpdatedAccount(existing, incoming, balance) == [existing EXCEPT !.balance = balance]

\* The loop that follows, skipping the empty ones.
AfterAccounts(q) == IF q.data.goals # <<>> THEN "saveGoal" ELSE "done"
AfterTransactions(q) == IF q.data.accounts # <<>> THEN "acctFind" ELSE AfterAccounts(q)
StartSave(q) == IF q.data.transactions # <<>> THEN "saveTx" ELSE AfterTransactions(q)

\* The next iteration of a loop over `items`, or the loop that follows.
Advance(q, items, loop, after) ==
  IF q.i < Len(items) THEN [q EXCEPT !.pc = loop, !.i = q.i + 1]
  ELSE [q EXCEPT !.pc = after, !.i = 1]

\* A catch block that lets the failure out of execute.
CatchItemRethrows(q, items, loop, after) == [q EXCEPT !.pc = "threw"]

\* A catch block of a loop: the failure is logged and the loop goes on.
CatchItem(q, items, loop, after) == Advance(q, items, loop, after)

Called(q, op, ok, id) ==
  [q EXCEPT !.calls = Append(@, [op |-> op, item |-> q.i, ok |-> ok, id |-> id])]

\* `if (saved.id) ids.push(saved.id)`
PushId(ids, id) == IF id # 0 THEN Append(ids, id) ELSE ids

\* One iteration of the transactions loop: transactionRepository.save.
SaveTransaction(p) ==
  /\ proc[p].pc = "saveTx"
  /\ \E ok \in BOOLEAN :
       LET q == proc[p]
           t == q.data.transactions[q.i]
           id == NewId(txRows)
       IN IF ok
          THEN /\ txRows' = Append(txRows,
                    [id |-> id, userId |-> t.userId, amount |-> t.amount,
                     type |-> t.type, category |-> t.category,
                     description |-> t.description, date |-> t.day, by |-> p])
               /\ proc' = [proc EXCEPT ![p] =
                    Advance([Called(q, "tx.save", TRUE, id) EXCEPT
                               !.transactionIds = PushId(@, id)],
                            q.data.transactions, "saveTx", AfterTransactions(q))]
          ELSE /\ txRows' = txRows
               /\ proc' = [proc EXCEPT ![p] =
                    CatchItem(Called(q, "tx.save", FALSE, 0),
                              q.data.transactions, "saveTx", AfterTransactions(q))]
  /\ UNCHANGED <<acctRows, goalRows, nonPipeVars>>

NextAccount(q) == Advance(q, q.data.accounts, "acctFind", AfterAccounts(q))
CatchAccount(q) == CatchItem(q, q.data.accounts, "acctFind", AfterAccounts(q))

Logged(q, threw, inserted, stored) ==
  [q EXCEPT !.acctLog = Append(@,
     [item |-> q.i, threw |-> threw, matching |-> q.matching, before |-> q.before,
      inserted |-> inserted, stored |-> stored])]

\* accountRepository.findByUserIdAndName and the branch on its result; an
\* existing account whose balance needs no update is finished here.
AccountFind(p) ==
  /\ proc[p].pc = "acctFind"
  /\ \E ok \in BOOLEAN :
       LET q0 == proc[p]
           a == q0.data.accounts[q0.i]
           n == Cardinality(Matching(acctRows, a.userId, a.name))
           existing == findByUserIdAndName(acctRows, a.userId, a.name)
           q == [Called(q0, "acct.find", ok, 0) EXCEPT
                   !.matching = n,
                   !.before = IF n = 0 THEN Null
                              ELSE acctRows[Min(Matching(acctRows, a.userId, a.name))].balance]
       IN proc' = [proc EXCEPT ![p] =
            IF ~ok THEN CatchAccount(Logged(q, TRUE, 0, Null))
            ELSE IF existing = NoRow THEN [q EXCEPT !.pc = "acctSave", !.existing = NoRow]
            ELSE IF a.balance # Undefined /\ existing.balance # a.balance
              THEN [q EXCEPT !.pc = "acctUpdate", !.existing = existing]
            ELSE NextAccount(
                   [Logged(q, FALSE, 0, BalanceOrNull(existing.balance)) EXCEPT
                      !.accountIds = PushId(@, existing.id)])]
  /\ UNCHANGED <<dbVars, nonPipeVars>>

\* existingAccount.updateBalance(account.balance), then accountRepository.update.
AccountUpdate(p) ==
  /\ proc[p].pc = "acctUpdate"
  /\ \E ok \in BOOLEAN :
       LET q == proc[p]
           a == q.data.accounts[q.i]
           r == updateBalance(q.existing.balance, a.balance)
           entity == UpdatedAccount(q.existing, a, r.g)
           found == \E k \in 1..Len(acctRows) : acctRows[k].id = entity.id
       IN IF ~r.threw /\ ok /\ entity.id # 0 /\ found
          THEN /\ acctRows' = UpdateRows(acctRows, entity)
               /\ proc' = [proc EXCEPT ![p] =
                    NextAccount(
                      [Logged(Called(q, "acct.update", TRUE, entity.id), FALSE, 0,
                              BalanceOrNull(entity.balance)) EXCEPT
                         !.accountIds = PushId(@, entity.id)])]
          ELSE /\ acctRows' = acctRows
               /\ proc' = [proc EXCEPT ![p] =
                    CatchAccount(Logged(Called(q, "acct.update", FALSE, 0), TRUE, 0, Null))]
  /\ UNCHANGED <<txRows, goalRows, nonPipeVars>>

\* accountRepository.save of an account that was not found.
AccountSave(p) ==
  /\ proc[p].pc = "acctSave"
  /\ \E ok \in BOOLEAN :
       LET q == proc[p]
           a == q.data.accounts[q.i]
           id == NewId(acctRows)
       IN IF ok
          THEN /\ acctRows' = Append(acctRows, AccountRow(id, a))
               /\ proc' = [proc EXCEPT ![p] =
                    NextAccount(
                      [Logged(Called(q, "acct.save", TRUE, id), FALSE, 1,
                              AccountRow(id, a).balance) EXCEPT
                         !.accountIds = PushId(@, id)])]
          ELSE /\ acctRows' = acctRows
               /\ proc' = [proc EXCEPT ![p] =
                    CatchAccount(Logged(Called(q, "acct.save", FALSE, 0), TRUE, 0, Null))]
  /\ UNCHANGED <<txRows, goalRows, nonPipeVars>>

\* One iteration of the goals loop: goalRepository.save.
SaveGoal(p) ==
  /\ proc[p].pc = "saveGoal"
  /\ \E ok \in BOOLEAN :
       LET q == proc[p]
           g == q.data.goals[q.i]
           id == NewId(goalRows)
       IN IF ok
          THEN /\ goalRows' = Append(goalRows,
                    [id |-> id, userId |-> g.userId, title |-> g.title,
                     goal |-> g.goal, by |-> p])
               /\ proc' = [proc EXCEPT ![p] =
                    Advance([Called(q, "goal.save", TRUE, id) EXCEPT
                               !.goalIds = PushId(@, id)],
                            q.data.goals, "saveGoal", "done")]
          ELSE /\ goalRows' = goalRows
               /\ proc' = [proc EXCEPT ![p] =
                    CatchItem(Called(q, "goal.save", FALSE, 0),
                              q.data.goals, "saveGoal", "done")]
  /\ UNCHANGED <<txRows, acctRows, nonPipeVars>>

\* The entities a batch to save is made of: what the constructors accept.
TxEntities == {TxEntity(1, ValidRawTx)}
AcctEntities ==
  {AcctEntity(1, RawAcct(name, "checking", balance)) :
     name \in {<<"a">>, <<"b">>}, balance \in {Undefined, Num(0), Num(2)}}
GoalEntities == {GoalEntity(1, RawGoal(<<"a">>, Num(2), Num(0), <<"a">>))}

\* Rows of financial_accounts left by earlier executions.
EarlierAcctRows ==
  {<<>>} \cup {<<AccountRow(1, AcctEntity(1, RawAcct(<<"a">>, "checking", balance)))>> :
                 balance \in {Undefined, Num(2), Num(3)}}

SaveProc(transactions, accounts, goals) ==
  LET q == [IdleProc EXCEPT !.chain = "save",
              !.data = [transactions |-> transactions, accounts |-> accounts,
                        goals |-> goals]]
  IN [q EXCEPT !.pc = StartSave(q)]

SaveInit ==
  /\ \E transactions \in SeqsUpTo(TxEntities, MaxTx),
        accounts \in SeqsUpTo(AcctEntities, MaxAccts),
        goals \in SeqsUpTo(GoalEntities, MaxGoals) :
       proc = [p \in Execs |->
                 IF p = 1 THEN SaveProc(transactions, accounts, goals) ELSE IdleProc]
  /\ txRows = <<>>
  /\ acctRows \in EarlierAcctRows
  /\ goalRows = <<>>

SaveNext ==
  \E p \in Execs :
    \/ SaveTransaction(p)
    \/ AccountFind(p)
    \/ AccountUpdate(p)
    \/ AccountSave(p)
    \/ SaveGoal(p)

\* Executions for the same user running concurrently, each on a batch of
\* accounts: every message is handled by its own chain of awaited calls.
ConcurrentAcctEntities ==
  {AcctEntity(1, RawAcct(name, "checking", balance)) :
     name \in {<<"a">>, <<"b">>}, balance \in {Undefined, Num(2)}}

ConcurrentInit ==
  /\ proc \in [Execs -> {SaveProc(<<>>, accounts, <<>>) :
                           accounts \in SeqsUpTo(ConcurrentAcctEntities, MaxAccts) \ {<<>>}}]
  /\ txRows = <<>>
  /\ acctRows = <<>>
  /\ goalRows = <<>>

ConcurrentNext ==
  \E p \in Execs :
    \/ AccountFind(p)
    \/ AccountUpdate(p)
    \/ AccountSave(p)

(***************************************************************************)
(* The two chains from raw extracted data to the store.                    *)
(*   clean:  ExtractFinancialDataUseCase, then SaveFinancialDataUseCase on *)
(*           the entities it returned;                                     *)
(*   legacy: FinanceExtractionService.extractFinancialData, the handler's  *)
(*           confidence gate, PostgresService.insertExtractedFinancialData.*)
(* A confidence is held in hundredths.                                     *)
(***************************************************************************)
\* SaveFinancialDataUseCase.execute entered with the extracted entities.
SaveStart(p) ==
  /\ proc[p].pc = "extracted"
  /\ proc[p].chain = "clean"
  /\ proc' = [proc EXCEPT ![p] = [@ EXCEPT !.pc = StartSave(proc[p])]]
  /\ UNCHANGED <<dbVars, nonPipeVars>>

\* The filters of validateAndCleanData.
LegacyTransactionValid(t) ==
  /\ NumTruthy(t.amount) /\ t.type # "" /\ Truthy(t.category) /\ Truthy(t.description)
  /\ t.amount.k \in {"num", "nan"}
  /\ JsGt(t.amount, Num(0))

LegacyAccountValid(a) ==
  Truthy(a.name) /\ a.type # "" /\ Len(trim(a.name)) > 0

LegacyGoalValid(g) ==
  /\ Truthy(g.title) /\ NumTruthy(g.targetAmount) /\ g.currentAmount # Undefined
  /\ Truthy(g.category)
  /\ g.targetAmount.k \in {"num", "nan"} /\ g.currentAmount.k \in {"num", "nan"}
  /\ JsGt(g.targetAmount, Num(0))

\* `typeof c === 'number' && c >= 0 && c <= 1 ? c : 0`
CleanConfidence(c) ==
  IF c.k \in {"num", "nan"} /\ JsGe(c, Num(0)) /\ JsLe(c, Num(100)) THEN c ELSE Num(0)

EmptyResult == [data |-> NoData, confidence |-> Num(0)]

HasNull(items) == \E k \in 1..Len(items) : items[k].null

\* Reading a field of a null item inside a filter is a TypeError.
validateAndCleanData(raw, confidence) ==
  [threw |-> HasNull(raw.transactions) \/ HasNull(raw.accounts) \/ HasNull(raw.goals),
   data |-> [transactions |->
               SelectSeq(raw.transactions, LAMBDA t : ~t.null /\ LegacyTransactionValid(t)),
             accounts |-> SelectSeq(raw.accounts, LAMBDA a : ~a.null /\ LegacyAccountValid(a)),
             goals |-> SelectSeq(raw.goals, LAMBDA g : ~g.null /\ LegacyGoalValid(g))],
   confidence |-> CleanConfidence(confidence)]

\* extractFinancialData of the legacy service: any failure yields the empty
\* result with confidence 0.
LegacyExtractFinancialData(modelOk, raw, confidence) ==
  LET r == validateAndCleanData(raw, confidence) IN
  IF ~modelOk \/ r.threw THEN EmptyResult
  ELSE [data |-> r.data, confidence |-> r.confidence]

\* `extractedFinancialData.confidence > 0.3`
ConfidenceGate == 30
\* A gate that lets the threshold itself through.
PassesGateInclusive(confidence) == JsGe(confidence, Num(ConfidenceGate))
PassesGate(confidence) == JsGt(confidence, Num(ConfidenceGate))

\* The handler's extraction step and its gate.
LegacyExtract(p) ==
  /\ proc[p].pc = "legacyExtract"
  /\ \E response \in ModelResponses :
       LET q == [proc[p] EXCEPT !.h.response = response, !.h.extractCalls = @ + 1]
           r == LegacyExtractFinancialData(response = "json", q.raw, q.confidence)
       IN proc' = [proc EXCEPT ![p] =
            [q EXCEPT !.data = r.data, !.confidence = r.confidence,
                      !.pc = IF PassesGate(r.confidence) THEN "legacyInsert"
                             ELSE "replied"]]
  /\ UNCHANGED <<dbVars, nonPipeVars>>

\* The columns of the tables, and the keys of the objects the legacy insert
\* hands to the query builder, which uses a key as the column's name.
TransactionColumns ==
  {"id", "user_id", "amount", "type", "category", "description", "date", "account",
   "tags", "created_at", "updated_at", "metadata"}
AccountColumns ==
  {"id", "user_id", "name", "type", "bank", "balance", "created_at", "updated_at"}
GoalColumns ==
  {"id", "user_id", "title", "description", "target_amount", "current_amount",
   "target_date", "category", "created_at", "updated_at"}
LegacyTransactionKeys ==
  {"user_id", "amount", "type", "category", "description", "date", "account", "tags",
   "metadata"}
LegacyAccountKeys == {"userId", "name", "type", "bank", "balance", "createdAt"}
LegacyGoalKeys ==
  {"userId", "title", "description", "targetAmount", "currentAmount", "targetDate",
   "category", "createdAt"}

\* The items each loop of insertExtractedFinancialData inserts.
LegacyInsertable(data) ==
  [transactions |-> SelectSeq(data.transactions, TxFieldsPresent),
   accounts |-> SelectSeq(data.accounts, LAMBDA a : Truthy(a.name) /\ a.type # ""),
   goals |-> SelectSeq(data.goals,
               LAMBDA g : Truthy(g.title) /\ g.targetAmount # Undefined
                          /\ g.currentAmount # Undefined /\ Truthy(g.category))]

\* Whether the database takes the insert of transaction t.
LegacyTransactionAccepted(t) ==
  LegacyTransactionKeys \subseteq TransactionColumns /\ t.type \in TransactionTypes

\* Whether the database takes every insert of the batch.
LegacyInsertsAccepted(ins) ==
  /\ \A k \in 1..Len(ins.transactions) : LegacyTransactionAccepted(ins.transactions[k])
  /\ ins.accounts # <<>> => LegacyAccountKeys \subseteq AccountColumns
  /\ ins.goals # <<>> => LegacyGoalKeys \subseteq GoalColumns

\* The number of transaction inserts done through trx before the first insert
\* that fails: one the database rejects, or the one at which the connection
\* fails (failAt; 0 when it does not).
InsertedBeforeFailure(ts, failAt) ==
  LET bad == {k \in 1..Len(ts) : ~LegacyTransactionAccepted(ts[k]) \/ k = failAt}
  IN IF bad = {} THEN Len(ts) ELSE Min(bad) - 1

LegacyTransactionRows(p, userId, ts, first) ==
  [k \in 1..Len(ts) |->
     [id |-> first + k - 1, userId |-> userId, amount |-> ts[k].amount,
      type |-> ts[k].type, category |-> ts[k].category,
      description |-> ts[k].description, date |-> Today, by |-> p]]

\* A transaction whose rollback leaves the rows already inserted.
SettleTransactionKeepsRows(rows, pending, resolved) == rows \o pending
\* knex.transaction: the rows inserted through trx are committed when the
\* callback resolves and rolled back when it rejects.
SettleTransaction(rows, pending, resolved) ==
  IF resolved THEN rows \o pending ELSE rows

\* insertExtractedFinancialData: the inserts of the three loops inside one
\* database transaction, up to the first that fails.
LegacyInsert(p) ==
  /\ proc[p].pc = "legacyInsert"
  /\ \E failAt \in 0..MaxBatch + 1 :
       LET ins == LegacyInsertable(proc[p].data)
           n == InsertedBeforeFailure(ins.transactions, failAt)
           pending == LegacyTransactionRows(p, proc[p].userId,
                                            SubSeq(ins.transactions, 1, n), NewId(txRows))
           resolved == LegacyInsertsAccepted(ins) /\ failAt = 0
           q == [proc[p] EXCEPT !.h.pending = Len(pending)]
       IN /\ txRows' = SettleTransaction(txRows, pending, resolved)
          /\ proc' = [proc EXCEPT ![p] =
               IF resolved
               THEN [q EXCEPT !.pc = "inserted",
                              !.transactionIds = [k \in 1..Len(pending) |-> pending[k].id]]
               ELSE [q EXCEPT !.pc = "insertFailed"]]
  /\ UNCHANGED <<acctRows, goalRows, nonPipeVars>>

\* The confidences a model response carries, in hundredths.
Confidences == {Undefined, Num(ConfidenceGate), Num(ConfidenceGate + 1), Num(150)}

PersistInit ==
  /\ \E chain \in {"clean", "legacy"}, transactions \in SeqsUpTo(RawTxs, MaxBatch),
        accounts \in SeqsUpTo(RawAccts, 1), goals \in SeqsUpTo(RawGoals, 1),
        confidence \in Confidences :
       proc = [p \in Execs |->
         IF p = 1
         THEN [IdleProc EXCEPT
                 !.pc = IF chain = "clean" THEN "extract" ELSE "legacyExtract",
                 !.chain = chain, !.confidence = confidence,
                 !.raw = [transactions |-> transactions, accounts |-> accounts,
                          goals |-> goals]]
         ELSE IdleProc]
  /\ txRows = <<>>
  /\ acctRows \in EarlierAcctRows
  /\ goalRows = <<>>

PersistNext ==
  \E p \in Execs :
    \/ ExtractExecute(p)
    \/ SaveStart(p)
    \/ SaveTransaction(p)
    \/ AccountFind(p)
    \/ AccountUpdate(p)
    \/ AccountSave(p)
    \/ SaveGoal(p)
    \/ LegacyExtract(p)
    \/ LegacyInsert(p)

(***************************************************************************)
(* A repository round trip: save(entity), then findById of the id that     *)
(* save assigned.                                                          *)
(***************************************************************************)
\* findById of the account repository: the row mapped to an entity, or null.
findAccountById(rows, id) ==
  IF \E k \in 1..Len(rows) : rows[k].id = id
  THEN LET r == rows[CHOOSE k \in 1..Len(rows) : rows[k].id = id] IN
    [id |-> r.id, userId |-> r.userId, name |-> r.name, type |-> r.type,
     balance |-> ParseBalance(r.balance), bank |-> r.bank, isActive |-> r.isActive]
  ELSE NoRow

\* The row the transaction repository's save inserts.
TransactionRow(id, t, p) ==
  [id |-> id, userId |-> t.userId, amount |-> t.amount, type |-> t.type,
   category |-> t.category, description |-> t.description, date |-> t.day, by |-> p]

\* findById of the transaction repository; parseFloat gives back the number
\* the amount column holds.
findTransactionById(rows, id) ==
  IF \E k \in 1..Len(rows) : rows[k].id = id
  THEN LET r == rows[CHOOSE k \in 1..Len(rows) : rows[k].id = id] IN
    [id |-> r.id, userId |-> r.userId, amount |-> r.amount, type |-> r.type,
     category |-> r.category, description |-> r.description]
  ELSE NoRow

RoundTripSaveAccount(p) ==
  /\ proc[p].pc = "rtSaveAccount"
  /\ \E ok \in BOOLEAN :
       LET q == proc[p]
           id == NewId(acctRows)
       IN IF ok
          THEN /\ acctRows' = Append(acctRows, AccountRow(id, q.data.accounts[1]))
               /\ proc' = [proc EXCEPT ![p] =
                    [Called(q, "acct.save", TRUE, id) EXCEPT
                       !.pc = "rtFindAccount", !.accountIds = PushId(@, id)]]
          ELSE /\ acctRows' = acctRows
               /\ proc' = [proc EXCEPT ![p] =
                    [Called(q, "acct.save", FALSE, 0) EXCEPT !.pc = "threw"]]
  /\ UNCHANGED <<txRows, goalRows, nonPipeVars>>

RoundTripFindAccount(p) ==
  /\ proc[p].pc = "rtFindAccount"
  /\ \E ok \in BOOLEAN :
       LET q == proc[p] IN
       proc' = [proc EXCEPT ![p] =
         IF ok THEN [q EXCEPT !.pc = "rtFound",
                              !.existing = findAccountById(acctRows, q.accountIds[1])]
         ELSE [q EXCEPT !.pc = "threw"]]
  /\ UNCHANGED <<dbVars, nonPipeVars>>

RoundTripSaveTransaction(p) ==
  /\ proc[p].pc = "rtSaveTransaction"
  /\ \E ok \in BOOLEAN :
       LET q == proc[p]
           id == NewId(txRows)
       IN IF ok
          THEN /\ txRows' = Append(txRows, TransactionRow(id, q.data.transactions[1], p))
               /\ proc' = [proc EXCEPT ![p] =
                    [Called(q, "tx.save", TRUE, id) EXCEPT
                       !.pc = "rtFindTransaction", !.transactionIds = PushId(@, id)]]
          ELSE /\ txRows' = txRows
               /\ proc' = [proc EXCEPT ![p] =
                    [Called(q, "tx.save", FALSE, 0) EXCEPT !.pc = "threw"]]
  /\ UNCHANGED <<acctRows, goalRows, nonPipeVars>>

RoundTripFindTransaction(p) ==
  /\ proc[p].pc = "rtFindTransaction"
  /\ \E ok \in BOOLEAN :
       LET q == proc[p] IN
       proc' = [proc EXCEPT ![p] =
         IF ok THEN [q EXCEPT !.pc = "rtFound",
                              !.existing = findTransactionById(txRows, q.transactionIds[1])]
         ELSE [q EXCEPT !.pc = "threw"]]
  /\ UNCHANGED <<dbVars, nonPipeVars>>

\* Every account and transaction the constructors accept, over the modelled
\* names, types and amounts.
RoundTripAccounts ==
  {AcctEntity(1, RawAcct(name, type, balance)) :
     name \in {<<"a">>, <<" ", "a">>}, type \in AccountTypes,
     balance \in {Undefined, Num(0), Num(1), Num(MaxAmount)}}
RoundTripTransactions ==
  {TxEntity(1, RawTx(Num(amount), type, category, <<"a">>, "absent")) :
     amount \in 1..MaxAmount, type \in TransactionTypes,
     category \in {<<"a">>, <<" ", "a">>}}

RoundTripInit ==
  /\ \/ \E a \in RoundTripAccounts :
          proc = [p \in Execs |->
            IF p = 1
            THEN [IdleProc EXCEPT !.pc = "rtSaveAccount", !.chain = "roundTrip",
                    !.data = [NoData EXCEPT !.accounts = <<a>>]]
            ELSE IdleProc]
     \/ \E t \in RoundTripTransactions :
          proc = [p \in Execs |->
            IF p = 1
            THEN [IdleProc EXCEPT !.pc = "rtSaveTransaction", !.chain = "roundTrip",
                    !.data = [NoData EXCEPT !.transactions = <<t>>]]
            ELSE IdleProc]
  /\ txRows = <<>>
  /\ acctRows \in EarlierAcctRows
  /\ goalRows = <<>>

RoundTripNext ==
  \E p \in Execs :
    \/ RoundTripSaveAccount(p)
    \/ RoundTripFindAccount(p)
    \/ RoundTripSaveTransaction(p)
    \/ RoundTripFindTransaction(p)

(***************************************************************************)
(* Totals of the transaction repository.  A date is a day number; an       *)
(* optional date that is not given is NoDate.                              *)
(***************************************************************************)
NoDate == 0 - 1

\* A date filter that leaves out the rows dated on the end date.
InDateRangeExclusive(date, startDate, endDate) ==
  IF startDate # NoDate /\ endDate # NoDate THEN startDate <= date /\ date < endDate
  ELSE IF startDate # NoDate THEN date >= startDate
  ELSE IF endDate # NoDate THEN date < endDate
  ELSE TRUE

\* whereBetween when both dates are given, one comparison when one is.
InDateRange(date, startDate, endDate) ==
  IF startDate # NoDate /\ endDate # NoDate THEN startDate <= date /\ date <= endDate
  ELSE IF startDate # NoDate THEN date >= startDate
  ELSE IF endDate # NoDate THEN date <= endDate
  ELSE TRUE

\* `.sum('amount as total')`: null over no rows.
RECURSIVE SumAmount(_)
SumAmount(rows) == IF rows = <<>> THEN 0 ELSE Head(rows).amount.v + SumAmount(Tail(rows))
SqlSum(rows) == IF rows = <<>> THEN Null ELSE Num(SumAmount(rows))

\* `parseFloat(total || '0')`
ParseTotal(total) == IF total = Null THEN 0 ELSE total.v

TotalOfType(rows, userId, type, startDate, endDate) ==
  ParseTotal(SqlSum(SelectSeq(rows,
    LAMBDA r : r.userId = userId /\ r.type = type
               /\ InDateRange(r.date, startDate, endDate))))

getTotalIncome(rows, userId, startDate, endDate) ==
  TotalOfType(rows, userId, "income", startDate, endDate)
getTotalExpenses(rows, userId, startDate, endDate) ==
  TotalOfType(rows, userId, "expense", startDate, endDate)

\* The dates a query is made with.
QueryDates == {NoDate, Today + 1}

\* A call of getTotalIncome.
TotalsIncome(p) ==
  /\ proc[p].pc = "query"
  /\ \E ok \in BOOLEAN, startDate \in QueryDates, endDate \in QueryDates :
       proc' = [proc EXCEPT ![p] =
         IF ok
         THEN [@ EXCEPT !.pc = "queried",
                 !.summary = [NoSummary EXCEPT !.op = "getTotalIncome", !.userId = 1,
                    !.startDate = startDate, !.endDate = endDate,
                    !.totalIncome = getTotalIncome(txRows, 1, startDate, endDate)]]
         ELSE [@ EXCEPT !.pc = "threw"]]
  /\ UNCHANGED <<dbVars, nonPipeVars>>

\* A call of getTotalExpenses.
TotalsExpenses(p) ==
  /\ proc[p].pc = "query"
  /\ \E ok \in BOOLEAN, startDate \in QueryDates, endDate \in QueryDates :
       proc' = [proc EXCEPT ![p] =
         IF ok
         THEN [@ EXCEPT !.pc = "queried",
                 !.summary = [NoSummary EXCEPT !.op = "getTotalExpenses", !.userId = 1,
                    !.startDate = startDate, !.endDate = endDate,
                    !.totalExpenses = getTotalExpenses(txRows, 1, startDate, endDate)]]
         ELSE [@ EXCEPT !.pc = "threw"]]
  /\ UNCHANGED <<dbVars, nonPipeVars>>

\* Stored transactions of two users, of every type, dated before, on and
\* after the day the queries name.
StoredTransactions ==
  {[id |-> 0, userId |-> userId, amount |-> Num(amount), type |-> type,
    category |-> <<"a">>, description |-> <<"a">>, date |-> date, by |-> 0] :
     userId \in {1, 2}, amount \in {1, MaxAmount}, type \in TransactionTypes,
     date \in Today..(Today + 2)}

TotalsInit ==
  /\ proc = [p \in Execs |->
       IF p = 1 THEN [IdleProc EXCEPT !.pc = "query", !.chain = "totals"] ELSE IdleProc]
  /\ \E rows \in SeqsUpTo(StoredTransactions, MaxRows) :
       txRows = [k \in 1..Len(rows) |-> [rows[k] EXCEPT !.id = k]]
  /\ acctRows = <<>>
  /\ goalRows = <<>>

TotalsNext ==
  \E p \in Execs :
    \/ TotalsIncome(p)
    \/ TotalsExpenses(p)

(***************************************************************************)
(* GetFinancialSummaryUseCase, run after SaveFinancialDataUseCase has      *)
(* returned.                                                               *)
(***************************************************************************)
DefaultPeriodDays == 30

\* `endDate || new Date()`, and `startDate || new Date()` moved 30 days back.
EffectiveEndDate(endDate) == IF endDate = NoDate THEN Today ELSE endDate
EffectiveStartDate(startDate) ==
  IF startDate = NoDate THEN Today - DefaultPeriodDays ELSE startDate

\* execute is called with a user and an optional period.
SummaryStart(p) ==
  /\ proc[p].pc = "done"
  /\ proc[p].chain = "saveSummary"
  /\ proc' = [proc EXCEPT ![p] =
       [@ EXCEPT !.pc = "sumIncome",
          !.summary = [@ EXCEPT !.op = "summary",
                         !.startDate = EffectiveStartDate(@),
                         !.endDate = EffectiveEndDate(proc[p].summary.endDate)]]]
  /\ UNCHANGED <<dbVars, nonPipeVars>>

\* transactionRepository.getTotalIncome over the effective period.
SummaryIncome(p) ==
  /\ proc[p].pc = "sumIncome"
  /\ \E ok \in BOOLEAN :
       LET u == proc[p].summary IN
       proc' = [proc EXCEPT ![p] =
         IF ok
         THEN [@ EXCEPT !.pc = "sumExpenses",
                 !.summary.totalIncome =
                    getTotalIncome(txRows, u.userId, u.startDate, u.endDate)]
         ELSE [@ EXCEPT !.pc = "threw"]]
  /\ UNCHANGED <<dbVars, nonPipeVars>>

\* transactionRepository.getTotalExpenses over the effective period.
SummaryExpenses(p) ==
  /\ proc[p].pc = "sumExpenses"
  /\ \E ok \in BOOLEAN :
       LET u == proc[p].summary IN
       proc' = [proc EXCEPT ![p] =
         IF ok
         THEN [@ EXCEPT !.pc = "sumRest",
                 !.summary.totalExpenses =
                    getTotalExpenses(txRows, u.userId, u.startDate, u.endDate)]
         ELSE [@ EXCEPT !.pc = "threw"]]
  /\ UNCHANGED <<dbVars, nonPipeVars>>

\* A net balance with the operands the wrong way round.
NetBalanceReversed(totalIncome, totalExpenses) == totalExpenses - totalIncome

\* `const netBalance = totalIncome - totalExpenses`
NetBalance(totalIncome, totalExpenses) == totalIncome - totalExpenses

\* The remaining reads (accounts, goals, categories, recent transactions),
\* any of which may throw, and the returned DTO.
SummaryReturn(p) ==
  /\ proc[p].pc = "sumRest"
  /\ \E ok \in BOOLEAN :
       LET u == proc[p].summary IN
       proc' = [proc EXCEPT ![p] =
         IF ok
         THEN [@ EXCEPT !.pc = "summaryReturned",
                 !.summary.netBalance = NetBalance(u.totalIncome, u.totalExpenses)]
         ELSE [@ EXCEPT !.pc = "threw"]]
  /\ UNCHANGED <<dbVars, nonPipeVars>>

\* Valid transactions of user 1 dated today or tomorrow.
SummaryTransactions ==
  {[TxEntity(1, RawTx(Num(amount), type, <<"a">>, <<"a">>, "absent")) EXCEPT !.day = day] :
     amount \in {1, MaxAmount}, type \in TransactionTypes, day \in {Today, Today + 1}}

SummaryInit ==
  /\ \E transactions \in SeqsUpTo(SummaryTransactions, MaxTx),
        startDate \in {NoDate, Today}, endDate \in {NoDate, Today + 1} :
       proc = [p \in Execs |->
         IF p = 1
         THEN [SaveProc(transactions, <<>>, <<>>) EXCEPT
                 !.chain = "saveSummary",
                 !.summary = [NoSummary EXCEPT !.userId = 1, !.startDate = startDate,
                                               !.endDate = endDate]]
         ELSE IdleProc]
  /\ txRows = <<>>
  /\ acctRows = <<>>
  /\ goalRows = <<>>

SummaryNext ==
  \E p \in Execs :
    \/ SaveTransaction(p)
    \/ SummaryStart(p)
    \/ SummaryIncome(p)
    \/ SummaryExpenses(p)
    \/ SummaryReturn(p)

(***************************************************************************)
(* TelegramAudioHandlerAdapter.handleAudio                                 *)
(***************************************************************************)
MessageKinds == {"voice", "audio", "text"}
\* The sizes fs.statSync can report for the downloaded file.
DownloadedSizes == {0, 1, SizeLimit + 1}
\* The steps after the transcription that can throw; "none" when none does.
TailFailures == {"reply", "extract", "result", "unlink", "none"}

HandlerStart(kind, userId) ==
  [IdleProc EXCEPT !.pc = "hAck", !.chain = "handler", !.userId = userId,
                   !.h = [NoHandler EXCEPT !.kind = kind]]

\* A step of the try block threw: control goes to the catch.
HandlerThrow(q, step) ==
  [q EXCEPT !.pc = "hCatch", !.h.failed = @ \cup {step}]

\* ctx.reply of the acknowledgement.
HandleAck(p) ==
  /\ proc[p].pc = "hAck"
  /\ \E ok \in BOOLEAN :
       proc' = [proc EXCEPT ![p] =
         IF ok THEN [proc[p] EXCEPT !.pc = "hFileLink",
                                    !.h.replies = Append(@, "processing")]
         ELSE HandlerThrow(proc[p], "reply")]
  /\ UNCHANGED <<dbVars, nonPipeVars>>

\* The file id of the audio or voice message, then getFileLink.
HandleGetFileLink(p) ==
  /\ proc[p].pc = "hFileLink"
  /\ \E ok \in BOOLEAN :
       proc' = [proc EXCEPT ![p] =
         IF proc[p].h.kind \notin {"audio", "voice"} THEN HandlerThrow(proc[p], "format")
         ELSE IF ok THEN [proc[p] EXCEPT !.pc = "hDownload"]
         ELSE HandlerThrow(proc[p], "getFileLink")]
  /\ UNCHANGED <<dbVars, nonPipeVars>>

\* The readings Date.now() can give, in milliseconds: the clock does not run
\* backwards, and two readings may fall in the same millisecond.
ClockReadings ==
  {now \in 1..MaxClock : \A o \in Execs : proc[o].h.path.now <= now}

\* mkdirSync, the path of the temporary file and downloadFile: the request
\* fails before the file is created, or the write stream fails and leaves
\* what it wrote, or the file is written.
HandleDownload(p) ==
  /\ proc[p].pc = "hDownload"
  /\ \E outcome \in {"written", "requestFailed", "writeFailed"},
        fileSize \in DownloadedSizes, left \in BOOLEAN, now \in ClockReadings :
       LET q == [proc[p] EXCEPT !.h.path = TempPath(proc[p].userId, now)] IN
       proc' = [proc EXCEPT ![p] =
         IF outcome = "written"
         THEN [q EXCEPT !.pc = "hTranscribing", !.h.tempFile = TRUE,
                        !.h.fileSize = fileSize]
         ELSE IF outcome = "writeFailed"
         THEN [HandlerThrow(q, "download") EXCEPT !.h.tempFile = left]
         ELSE HandlerThrow(q, "download")]
  /\ UNCHANGED <<dbVars, nonPipeVars>>

\* The second progress reply, new AudioFile (which rejects a size <= 0) and
\* the call of transcribeAudioUseCase.execute with the local path.
HandleStartTranscription(p) ==
  /\ proc[p].pc = "hTranscribing"
  /\ tr.pc = "idle"
  /\ \E ok \in BOOLEAN :
       LET q == proc[p] IN
         IF ~ok
         THEN /\ proc' = [proc EXCEPT ![p] = HandlerThrow(q, "reply")]
              /\ UNCHANGED tr
         ELSE IF q.h.fileSize <= 0
         THEN /\ proc' = [proc EXCEPT ![p] =
                   HandlerThrow([q EXCEPT !.h.replies = Append(@, "transcribing")],
                                "audioFile")]
              /\ UNCHANGED tr
         ELSE /\ proc' = [proc EXCEPT ![p] =
                   [q EXCEPT !.pc = "hExecute", !.h.replies = Append(@, "transcribing")]]
              /\ tr' = TrStart([hasFile |-> TRUE, mimeType |-> "audio/ogg",
                                fileSize |-> q.h.fileSize, isUrl |-> FALSE,
                                userId |-> q.userId])
  /\ UNCHANGED <<dbVars, goalVars, acctVars>>

\* The rest of the try block once execute has returned the transcript: the
\* third progress reply, extractFinancialDataUseCase.execute,
\* sendProcessedResult and unlinkSync, stopping at the first step that throws.
AfterTranscription(q, text, failure) ==
  LET sent == IF failure = "reply" THEN q.h.replies
              ELSE IF failure \in {"extract", "result"}
              THEN Append(q.h.replies, "extracting")
              ELSE q.h.replies \o <<"extracting", "result">>
      r == [q EXCEPT !.h.text = text, !.h.replies = sent,
                     !.h.extractCalls = IF failure = "reply" THEN @ ELSE @ + 1,
                     !.h.tempFile = (failure # "none")]
  IN IF failure = "none" THEN [r EXCEPT !.pc = "hDone"] ELSE HandlerThrow(r, failure)

\* `await this.transcribeAudioUseCase.execute(...)` once execute (t) has
\* settled: a rejection goes to the catch, a transcript to the rest of the try
\* block.
Transcribed(q, t, failure) ==
  IF t.pc = "threw" THEN [q EXCEPT !.pc = "hCatch"]
  ELSE AfterTranscription(q, t.text, failure)

HandleTranscribed(p) ==
  /\ proc[p].pc = "hExecute"
  /\ tr.pc \in {"threw", "returned"}
  /\ \E failure \in TailFailures :
       proc' = [proc EXCEPT ![p] = Transcribed(proc[p], tr, failure)]
  /\ UNCHANGED <<dbVars, nonPipeVars>>

\* The catch: logger.error and the failure notice, whose own failure rejects
\* the call.
HandleCatch(p) ==
  /\ proc[p].pc = "hCatch"
  /\ \E ok \in BOOLEAN :
       proc' = [proc EXCEPT ![p] =
         IF ok THEN [proc[p] EXCEPT !.pc = "hDone", !.h.replies = Append(@, "failure")]
         ELSE [proc[p] EXCEPT !.pc = "hDone", !.h.rejected = TRUE,
                              !.h.failed = @ \cup {"reply"}]]
  /\ UNCHANGED <<dbVars, nonPipeVars>>

HandlerInit ==
  /\ \E kind \in MessageKinds, userId \in {0, 1} :
       proc = [p \in Execs |-> IF p = 1 THEN HandlerStart(kind, userId) ELSE IdleProc]
  /\ txRows = <<>>
  /\ acctRows = <<>>
  /\ goalRows = <<>>

\* execute is entered with the path of the temporary file, so getAudioBuffer
\* always throws and the steps of execute after it (the port call and the
\* Transcription entity) are never taken from this handler.
HandlerNext ==
  \/ \E p \in Execs : HandleAck(p)
  \/ \E p \in Execs : HandleGetFileLink(p)
  \/ \E p \in Execs : HandleDownload(p)
  \/ \E p \in Execs : HandleStartTranscription(p)
  \/ TrValidate
  \/ TrFetch
  \/ \E p \in Execs : HandleTranscribed(p)
  \/ \E p \in Execs : HandleCatch(p)

\* The extracted items a batch insert is exercised with: a transaction the
\* database takes, one whose type it rejects, one the cleaning drops, and an
\* account and a goal, whose inserts the database rejects.
BatchTxs ==
  {ValidRawTx, [ValidRawTx EXCEPT !.type = "bogus"], [ValidRawTx EXCEPT !.amount = Undefined]}
BatchAccts == {RawAcct(<<"a">>, "checking", Undefined)}
BatchGoals == {RawGoal(<<"a">>, Num(2), Num(0), <<"a">>)}

LegacyProc(pc, transactions, accounts, goals, confidence) ==
  [IdleProc EXCEPT !.pc = pc, !.chain = "legacy", !.confidence = confidence,
                   !.raw = [transactions |-> transactions, accounts |-> accounts,
                            goals |-> goals]]

\* Two messages handled at once: the batch of the first is drawn from the
\* items above, the batch of the others is one valid transaction.
BatchInit ==
  /\ \E transactions \in SeqsUpTo(BatchTxs, MaxBatch), accounts \in SeqsUpTo(BatchAccts, 1),
        goals \in SeqsUpTo(BatchGoals, 1) :
       proc = [p \in Execs |->
         IF p = 1
         THEN LegacyProc("legacyExtract", transactions, accounts, goals,
                         Num(ConfidenceGate + 1))
         ELSE LegacyProc("legacyExtract", <<ValidRawTx>>, <<>>, <<>>,
                         Num(ConfidenceGate + 1))]
  /\ txRows = <<>>
  /\ acctRows = <<>>
  /\ goalRows = <<>>

BatchNext ==
  \/ \E p \in Execs : LegacyExtract(p)
  \/ \E p \in Execs : LegacyInsert(p)

(***************************************************************************)
(* AudioHandler.handleAudio                                                *)
(***************************************************************************)
\* A reply of the handler: sent, or ctx.reply throws and the enclosing catch
\* takes over.
LegacyReplied(q, ok, reply, pc, catch) ==
  IF ok THEN [q EXCEPT !.pc = pc, !.h.replies = Append(@, reply)]
  ELSE [q EXCEPT !.pc = catch, !.h.failed = @ \cup {"reply"}]

\* The checks of the message, each answered with a reply and a return, and
\* the acknowledgement.
LegacyCheck(p) ==
  /\ proc[p].pc = "lCheck"
  /\ \E ok \in BOOLEAN :
       LET q == proc[p] IN
         proc' = [proc EXCEPT ![p] =
           IF q.h.kind \notin {"voice", "audio"}
           THEN LegacyReplied(q, ok, "sendAudio", "lDone", "lCatch")
           ELSE IF q.h.fileSize > SizeLimit
           THEN LegacyReplied(q, ok, "tooLarge", "lDone", "lCatch")
           ELSE LegacyReplied(q, ok, "processing", "lDownload", "lCatch")]
  /\ UNCHANGED <<dbVars, nonPipeVars>>

\* getFile and the download of the file into a buffer.
LegacyDownload(p) ==
  /\ proc[p].pc = "lDownload"
  /\ \E ok \in BOOLEAN :
       proc' = [proc EXCEPT ![p] =
         IF ok THEN [proc[p] EXCEPT !.pc = "lTranscribe"]
         ELSE [proc[p] EXCEPT !.pc = "lCatch", !.h.failed = @ \cup {"download"}]]
  /\ UNCHANGED <<dbVars, nonPipeVars>>

\* GeminiSpeechService.transcribe: throws when the model call fails or its
\* text is blank, and returns the trimmed text otherwise.
LegacyTranscription(ok, text) ==
  IF ok /\ ~IsBlank(text) THEN [threw |-> FALSE, text |-> trim(text)]
  ELSE [threw |-> TRUE, text |-> <<>>]

\* The transcription, the handler's own check of a blank text, and the two
\* transcription logs.
LegacyTranscribe(p) ==
  /\ proc[p].pc = "lTranscribe"
  /\ \E ok \in BOOLEAN, text \in Strings, replyOk \in BOOLEAN, logOk \in BOOLEAN :
       LET q == proc[p]
           r == LegacyTranscription(ok, text)
       IN proc' = [proc EXCEPT ![p] =
            IF r.threw
            THEN [q EXCEPT !.pc = "lCatch", !.h.failed = @ \cup {"transcribe"}]
            ELSE IF IsBlank(r.text)
            THEN LegacyReplied(q, replyOk, "notTranscribed", "lDone", "lCatch")
            ELSE IF ~logOk
            THEN [q EXCEPT !.pc = "lCatch", !.h.text = r.text,
                           !.h.failed = @ \cup {"log"}]
            ELSE [q EXCEPT !.pc = "legacyExtract", !.h.text = r.text]]
  /\ UNCHANGED <<dbVars, nonPipeVars>>

\* A handler that sends the full reply whether or not the batch was saved.
FullReplyDueWithoutSave(pc, logOk, fullOk) == logOk /\ fullOk
\* The full reply is reached when insertExtractedFinancialData and
\* insertFinanceExtractionLog have resolved, and it is sent when its own
\* ctx.reply does not throw.
FullReplyDue(pc, logOk, fullOk) == pc = "inserted" /\ logOk /\ fullOk

\* What follows the gate: after a batch that was saved, the extraction log
\* and the full reply, and the inner catch with its transcript-only reply
\* when the save, the log or the full reply throws; below the gate, the
\* transcript-only reply.
LegacyReply(p) ==
  /\ proc[p].chain = "legacyHandler"
  /\ proc[p].pc \in {"inserted", "insertFailed", "replied"}
  /\ \E logOk \in BOOLEAN, fullOk \in BOOLEAN, transcriptOk \in BOOLEAN :
       LET q == proc[p]
           caught == IF q.pc = "insertFailed" THEN {"save"}
                     ELSE IF q.pc = "inserted" /\ ~logOk THEN {"log"}
                     ELSE IF q.pc = "inserted" /\ ~fullOk THEN {"reply"}
                     ELSE {}
           r == [q EXCEPT !.h.failed = @ \cup caught]
       IN proc' = [proc EXCEPT ![p] =
            IF FullReplyDue(q.pc, logOk, fullOk)
            THEN LegacyReplied(q, TRUE, "result", "lDone", "lCatch")
            ELSE LegacyReplied(r, transcriptOk, "transcript", "lDone", "lCatch")]
  /\ UNCHANGED <<dbVars, nonPipeVars>>

\* The top-level catch: logger.error and the failure notice, whose own
\* failure rejects the call.
LegacyCatch(p) ==
  /\ proc[p].pc = "lCatch"
  /\ \E ok \in BOOLEAN :
       proc' = [proc EXCEPT ![p] =
         IF ok THEN [proc[p] EXCEPT !.pc = "lDone", !.h.replies = Append(@, "failure")]
         ELSE [proc[p] EXCEPT !.pc = "lDone", !.h.rejected = TRUE,
                              !.h.failed = @ \cup {"reply"}]]
  /\ UNCHANGED <<dbVars, nonPipeVars>>

\* The file_size of the message's audio.
MessageSizes == {1, SizeLimit + 1}

LegacyHandlerInit ==
  /\ \E kind \in MessageKinds, fileSize \in MessageSizes,
        transactions \in SeqsUpTo(BatchTxs, MaxBatch), accounts \in SeqsUpTo(BatchAccts, 1),
        goals \in SeqsUpTo(BatchGoals, 1),
        confidence \in {Num(ConfidenceGate), Num(ConfidenceGate + 1)} :
       proc = [p \in Execs |->
         IF p = 1
         THEN [LegacyProc("lCheck", transactions, accounts, goals, confidence)
                 EXCEPT !.chain = "legacyHandler", !.h.kind = kind,
                        !.h.fileSize = fileSize]
         ELSE IdleProc]
  /\ txRows = <<>>
  /\ acctRows = <<>>
  /\ goalRows = <<>>

LegacyHandlerNext ==
  \/ \E p \in Execs : LegacyCheck(p)
  \/ \E p \in Execs : LegacyDownload(p)
  \/ \E p \in Execs : LegacyTranscribe(p)
  \/ \E p \in Execs : LegacyExtract(p)
  \/ \E p \in Execs : LegacyInsert(p)
  \/ \E p \in Execs : LegacyReply(p)
  \/ \E p \in Execs : LegacyCatch(p)

(***************************************************************************)
(* The listing queries of the transaction and goal repositories            *)
(***************************************************************************)
\* The sequences that hold each row of S once.
Orderings(S) ==
  {s \in [1..Cardinality(S) -> S] : \A i, j \in 1..Cardinality(S) : i # j => s[i] # s[j]}

\* The business date of a row: the column the listing orders by.
ColumnOf(r, column) == IF column = "date" THEN r.date ELSE r.targetDate

\* `orderBy([{column: business date, order}, {column: 'created_at', order: 'desc'}])`:
\* whether row a may come before row b.
MayPrecede(a, b, column, order) ==
  \/ IF order = "desc" THEN ColumnOf(a, column) > ColumnOf(b, column)
      ELSE ColumnOf(a, column) < ColumnOf(b, column)
  \/ ColumnOf(a, column) = ColumnOf(b, column) /\ a.createdAt >= b.createdAt

\* The orders in which the database may return the rows of S.
OrderBy(S, column, order) ==
  {s \in Orderings(S) :
     \A i, j \in 1..Len(s) : i < j => MayPrecede(s[i], s[j], column, order)}

\* `.limit(limit)`
Limit(s, limit) == SubSeq(s, 1, IF limit < Len(s) THEN limit ELSE Len(s))

\* The default limit of the transaction listings.
DefaultLimit == 100

\* PostgresFinancialTransactionRepository.findByUserId: the lists it may return.
findTransactionsByUserId(rows, userId, limit) ==
  {Limit(s, limit) :
     s \in OrderBy({rows[k] : k \in {j \in 1..Len(rows) : rows[j].userId = userId}},
                   "date", "desc")}

\* PostgresFinancialGoalRepository.findByUserId and, with a status,
\* findActiveByUserId and findByUserIdAndStatus: the lists they may return.
findGoalsByUserId(rows, userId, status) ==
  OrderBy({rows[k] : k \in {j \in 1..Len(rows) :
                              /\ rows[j].userId = userId
                              /\ status \in {"any", rows[j].goal.status}}},
          "target_date", "asc")

ListTransactions(p) ==
  /\ proc[p].pc = "list"
  /\ \E userId \in {1, 2}, limit \in {1, DefaultLimit} :
       \E result \in findTransactionsByUserId(txRows, userId, limit) :
         proc' = [proc EXCEPT ![p] =
           [@ EXCEPT !.pc = "listed", !.userId = userId,
                     !.summary.op = "findTransactionsByUserId",
                     !.data.transactions = result]]
  /\ UNCHANGED <<dbVars, nonPipeVars>>

ListGoals(p) ==
  /\ proc[p].pc = "list"
  /\ \E userId \in {1, 2}, status \in {"any", "active", "completed"} :
       \E result \in findGoalsByUserId(goalRows, userId, status) :
         proc' = [proc EXCEPT ![p] =
           [@ EXCEPT !.pc = "listed", !.userId = userId,
                     !.summary.op = "findGoalsByUserId",
                     !.data.goals = result]]
  /\ UNCHANGED <<dbVars, nonPipeVars>>

\* Stored rows of two users with business dates and creation times that
\* repeat and differ.
ListedTransactions ==
  {[id |-> 0, userId |-> userId, amount |-> Num(1), type |-> "expense",
    category |-> <<"a">>, description |-> <<"a">>, date |-> date,
    createdAt |-> createdAt, by |-> 0] :
     userId \in {1, 2}, date \in Today..(Today + 1), createdAt \in Today..(Today + 1)}

ListedGoals ==
  {[id |-> 0, userId |-> userId, title |-> <<"a">>,
    goal |-> FinancialGoal(Num(2), Num(0), status), targetDate |-> targetDate,
    createdAt |-> createdAt, by |-> 0] :
     userId \in {1, 2}, status \in {"active", "completed"},
     targetDate \in Today..(Today + 1), createdAt \in Today..(Today + 1)}

ListingInit ==
  /\ proc = [p \in Execs |->
       IF p = 1 THEN [IdleProc EXCEPT !.pc = "list", !.chain = "listing"] ELSE IdleProc]
  /\ \E rows \in SeqsUpTo(ListedTransactions, MaxRows) :
       txRows = [k \in 1..Len(rows) |-> [rows[k] EXCEPT !.id = k]]
  /\ \E rows \in SeqsUpTo(ListedGoals, MaxRows) :
       goalRows = [k \in 1..Len(rows) |-> [rows[k] EXCEPT !.id = k]]
  /\ acctRows = <<>>

ListingNext ==
  \E p \in Execs :
    \/ ListTransactions(p)
    \/ ListGoals(p)

\* An account of user 1 stored by an earlier execution, with a bank and an
\* active flag of its own, and incoming accounts of another type and bank.
DedupStoredRows ==
  {<<[AccountRow(1, AcctEntity(1, RawAcct(<<"a">>, "savings", balance)))
        EXCEPT !.bank = bank, !.isActive = isActive]>> :
     balance \in {Undefined, Num(2)}, bank \in {"null", "itau"}, isActive \in BOOLEAN}
DedupIncoming ==
  {[AcctEntity(1, RawAcct(name, "checking", balance)) EXCEPT !.bank = bank] :
     name \in {<<"a">>, <<"b">>}, balance \in {Undefined, Num(2), Num(MaxAmount)},
     bank \in {"undefined", "nubank"}}

DedupInit ==
  /\ \E accounts \in SeqsUpTo(DedupIncoming, MaxAccts) \ {<<>>} :
       proc = [p \in Execs |->
         IF p = 1 THEN SaveProc(<<>>, accounts, <<>>) ELSE IdleProc]
  /\ txRows = <<>>
  /\ acctRows \in DedupStoredRows
  /\ goalRows = <<>>

DedupNext ==
  \E p \in Execs :
    \/ AccountFind(p)
    \/ AccountUpdate(p)
    \/ AccountSave(p)

\* The confidences a model may write in its JSON, in hundredths, and one
\* message for each pipeline.
ModelConfidences == {Undefined, NaN, Num(0 - 1), Num(0), Num(100), Num(150)}

ConfidenceInit ==
  /\ \E chain \in {"extract", "legacy"}, transactions \in SeqsUpTo(BatchTxs, MaxBatch),
        confidence \in ModelConfidences :
       proc = [p \in Execs |->
         IF p = 1
         THEN [IdleProc EXCEPT
                 !.pc = IF chain = "extract" THEN "extract" ELSE "legacyExtract",
                 !.chain = chain, !.confidence = confidence,
                 !.raw = [transactions |-> transactions, accounts |-> <<>>,
                          goals |-> <<>>]]
         ELSE IdleProc]
  /\ txRows = <<>>
  /\ acctRows = <<>>
  /\ goalRows = <<>>

ConfidenceNext ==
  \E p \in Execs :
    \/ ExtractExecute(p)
    \/ LegacyExtract(p)

\* Two voice messages handled at once, of the same user or of two users.
ConcurrentHandlersInit ==
  /\ \E users \in [Execs -> {1, 2}] :
       proc = [p \in Execs |-> HandlerStart("voice", users[p])]
  /\ txRows = <<>>
  /\ acctRows = <<>>
  /\ goalRows = <<>>

\* A day more than the default period before today.
EarlyDay == Today - DefaultPeriodDays - 1

\* execute called with each combination of a supplied and an omitted start
\* and end, a supplied pair in order.
PeriodInit ==
  /\ \E transactions \in SeqsUpTo(SummaryTransactions, 1),
        startDate \in {NoDate, EarlyDay, Today}, endDate \in {NoDate, EarlyDay, Today + 1} :
       /\ (startDate # NoDate /\ endDate # NoDate) => startDate <= endDate
       /\ proc = [p \in Execs |->
            IF p = 1
            THEN [SaveProc(transactions, <<>>, <<>>) EXCEPT
                    !.chain = "saveSummary",
                    !.summary = [NoSummary EXCEPT !.userId = 1, !.startDate = startDate,
                                                  !.endDate = endDate]]
            ELSE IdleProc]
  /\ txRows = <<>>
  /\ acctRows = <<>>
  /\ goalRows = <<>>

GoalNext ==
  \/ GoalUpdateTargetAmount
  \/ GoalUpdateCurrentAmount
  \/ GoalAddProgress
  \/ GoalMarkAsActive
  \/ GoalMarkAsCompleted
  \/ GoalMarkAsPaused
  \/ GoalMarkAsCancelled

(***************************************************************************)
(* Specifications and properties                                           *)
(***************************************************************************)
InitGoal == GoalInit /\ AcctIdle /\ TrIdle /\ PipeIdle

SpecGoal == InitGoal /\ [][GoalNext]_vars

AmountMutators == {"updateTargetAmount", "updateCurrentAmount", "addProgress"}

\* C1: a successful updateCurrentAmount, updateTargetAmount or addProgress on
\* an active goal that leaves currentAmount >= targetAmount completes the goal,
\* and on a paused or cancelled goal leaves the status as it was.
C1_CompletesOnlyFromActive ==
  (goalCall.op \in AmountMutators /\ ~goalCall.threw) =>
    /\ (goalPrev.status = "active" /\ JsGe(goal.currentAmount, goal.targetAmount))
         => goal.status = "completed"
    /\ goalPrev.status \in {"paused", "cancelled"} => goal.status = goalPrev.status

C1_Witness ==
  /\ goalCall.op = "addProgress" /\ ~goalCall.threw
  /\ goalPrev.status = "active"
  /\ JsLt(goalPrev.currentAmount, goalPrev.targetAmount)
  /\ goal.status = "completed"

\* C9: in every state of a constructed goal targetAmount > 0 and
\* currentAmount >= 0, and a mutator call that throws changes nothing.
C9_AmountInvariants ==
  /\ JsGt(goal.targetAmount, Num(0))
  /\ JsGe(goal.currentAmount, Num(0))
  /\ goalCall.threw => goal = goalPrev

InitAcct == AcctInit /\ GoalIdle /\ TrIdle /\ PipeIdle

SpecAcct == InitAcct /\ [][AcctNext]_vars

\* C10: on any account the constructor or updateBalance accepts, deposit and
\* withdraw throw on amount <= 0 and withdraw throws on amount > balance, each
\* leaving the balance unchanged, and a successful deposit or withdraw leaves
\* balance >= 0.
C10_DepositWithdrawSafe ==
  acctCall.op \in {"deposit", "withdraw"} =>
    /\ JsLe(acctCall.arg, Num(0)) => (acctCall.threw /\ acct = acctPrev)
    /\ (acctCall.op = "withdraw" /\ JsGt(acctCall.arg, acctPrev))
         => (acctCall.threw /\ acct = acctPrev)
    /\ ~acctCall.threw => JsGe(acct, Num(0))

InitTr == TrInit /\ GoalIdle /\ AcctIdle /\ PipeIdle

SpecTr == InitTr /\ [][TrNext]_vars

\* C6: execute on a file larger than 20 MiB throws without fetching the
\* audio bytes or calling the speech-to-text port; a file of exactly 20 MiB
\* is not rejected for its size.
C6_OversizeRejectedBeforeCalls ==
  /\ (tr.request.hasFile /\ tr.request.fileSize > 20 * 1024 * 1024) =>
       /\ tr.pc \in {"validate", "threw"}
       /\ tr.fetchCalls = 0
       /\ tr.portCalls = 0
  /\ tr.request.fileSize = 20 * 1024 * 1024 => tr.error # "size"

C6_Witness ==
  /\ tr.request.fileSize > 20 * 1024 * 1024
  /\ isSupportedFormat(tr.request.mimeType)
  /\ tr.pc = "threw"
  /\ tr.error = "size"

\* C7: execute on a file whose MIME type is outside the allow-list throws the
\* format error naming that MIME type, whatever the file size, without
\* fetching the audio bytes or calling the port.
C7_FormatErrorFirst ==
  (tr.request.hasFile /\ tr.request.mimeType \notin
     {"audio/mpeg", "audio/mp3", "audio/wav", "audio/ogg", "audio/flac", "audio/aac"}) =>
    /\ tr.pc \in {"validate", "threw"}
    /\ tr.fetchCalls = 0
    /\ tr.portCalls = 0
    /\ tr.pc = "threw" => (tr.error = "format" /\ tr.errorMime = tr.request.mimeType)

C7_Witness ==
  /\ tr.request.mimeType = "video/mp4"
  /\ tr.request.fileSize > 20 * 1024 * 1024
  /\ tr.pc = "threw"
  /\ tr.error = "format"

InitExtract == ExtractInit /\ GoalIdle /\ AcctIdle /\ TrIdle

SpecExtract == InitExtract /\ [][ExtractNext]_vars

\* The business fields of a raw item or of an entity.
TxFields(t) ==
  [amount |-> t.amount, type |-> t.type, category |-> t.category,
   description |-> t.description]

FieldsOf(ts) == [k \in 1..Len(ts) |-> TxFields(ts[k])]

\* A raw item that has the four fields and passes the four validations.
C4_ItemValid(t) ==
  /\ ~t.null
  /\ t.amount # Undefined /\ t.type # "" /\ t.category # <<>> /\ t.description # <<>>
  /\ JsGt(t.amount, Num(0))
  /\ t.type \in {"income", "expense", "transfer"}
  /\ \E k \in 1..Len(t.category) : t.category[k] # " "
  /\ \E k \in 1..Len(t.description) : t.description[k] # " "

\* A raw item as the port's JSON delivers it: an object whose optional date
\* is absent or a string.
C4_JsonItem(t) == ~t.null /\ t.date \in {"absent", "string"}

\* C4: when the port call succeeds, for a request of a valid user and raw
\* transactions that are JSON objects, execute does not throw and returns
\* exactly the raw transactions, in input order, that have amount, type,
\* category and description and pass the amount, type, category and
\* description validations.
C4_ExactlyValidItemsReturned ==
  \A p \in Execs :
    (proc[p].chain = "extract" /\ proc[p].userId > 0
       /\ proc[p].pc \notin {"extract", "portThrew"}
       /\ \A k \in 1..Len(proc[p].raw.transactions) :
            C4_JsonItem(proc[p].raw.transactions[k])) =>
      /\ proc[p].pc = "extracted"
      /\ FieldsOf(proc[p].data.transactions)
           = FieldsOf(SelectSeq(proc[p].raw.transactions, C4_ItemValid))

InitSave == SaveInit /\ GoalIdle /\ AcctIdle /\ TrIdle

SpecSave == InitSave /\ [][SaveNext]_vars

SavePcs == {"saveTx", "acctFind", "acctUpdate", "acctSave", "saveGoal", "done"}

\* The calls of one repository operation, and the ids of those that succeeded.
CallsOf(q, op) == SelectSeq(q.calls, LAMBDA c : c.op = op)
IdsOf(cs) == [k \in 1..Len(cs) |-> cs[k].id]
SucceededIds(q, op) == IdsOf(SelectSeq(q.calls, LAMBDA c : c.op = op /\ c.ok))
ItemsOf(cs) == [k \in 1..Len(cs) |-> cs[k].item]

\* C2: for each input account whose repository calls succeed: when a row
\* with the same (userId, name) exists no row is inserted and, if the input
\* balance is defined and differs from the stored number, the stored balance
\* afterwards equals the input balance; when no such row exists exactly one
\* row is inserted.
C2_DedupAndBalanceUpdate ==
  \A p \in Execs : \A k \in 1..Len(proc[p].acctLog) :
    LET e == proc[p].acctLog[k]
        a == proc[p].data.accounts[e.item]
    IN ~e.threw =>
         /\ e.matching > 0 =>
               /\ e.inserted = 0
               /\ (a.balance # Undefined /\ e.before # Null /\ e.before # a.balance)
                    => e.stored = a.balance
         /\ e.matching = 0 => e.inserted = 1

\* C5: whatever repository calls throw, execute does not throw, every item
\* of the batch is attempted in input order, and transactionIds and goalIds
\* are exactly the ids assigned by the saves that succeeded, in input order.
C5_PerItemFailureIsolated ==
  \A p \in Execs : proc[p].chain = "save" =>
    LET q == proc[p] IN
    /\ q.pc \in SavePcs
    /\ q.transactionIds = SucceededIds(q, "tx.save")
    /\ q.goalIds = SucceededIds(q, "goal.save")
    /\ Len(q.transactionIds) <= Len(q.data.transactions)
    /\ Len(q.goalIds) <= Len(q.data.goals)
    /\ \A j \in 1..Len(q.transactionIds) :
         \E r \in 1..Len(txRows) : txRows[r].id = q.transactionIds[j]
    /\ q.pc = "done" =>
         /\ ItemsOf(CallsOf(q, "tx.save")) = [k \in 1..Len(q.data.transactions) |-> k]
         /\ ItemsOf(CallsOf(q, "acct.find")) = [k \in 1..Len(q.data.accounts) |-> k]
         /\ ItemsOf(CallsOf(q, "goal.save")) = [k \in 1..Len(q.data.goals) |-> k]

C5_Witness ==
  \E p \in Execs :
    LET q == proc[p] IN
    /\ q.pc = "done"
    /\ Len(q.data.transactions) = 2 /\ Len(q.data.accounts) = 2 /\ Len(q.data.goals) = 1
    /\ \E c \in 1..Len(q.calls) : q.calls[c].op = "tx.save" /\ q.calls[c].item = 1
                                     /\ ~q.calls[c].ok
    /\ \E c \in 1..Len(q.calls) : q.calls[c].op = "acct.find" /\ ~q.calls[c].ok
    /\ Len(q.transactionIds) = 1
    /\ Len(q.goalIds) = 1

InitSaveConcurrent == ConcurrentInit /\ GoalIdle /\ AcctIdle /\ TrIdle

SpecSaveConcurrent == InitSaveConcurrent /\ [][ConcurrentNext]_vars

\* C3: under any interleaving of concurrent save executions for one user,
\* financial_accounts holds at most one row per (userId, name).
C3_AccountNameUnique ==
  \A j, k \in 1..Len(acctRows) :
    (acctRows[j].userId = acctRows[k].userId /\ acctRows[j].name = acctRows[k].name)
      => j = k

InitPersist == PersistInit /\ GoalIdle /\ AcctIdle /\ TrIdle

SpecPersist == InitPersist /\ [][PersistNext]_vars

\* C8: every financial_transactions row written by either chain has
\* amount > 0 and a category and a description that are neither empty nor
\* made of whitespace only.
C8_NoInvalidRowPersisted ==
  \A k \in 1..Len(txRows) :
    /\ JsGt(txRows[k].amount, Num(0))
    /\ \E j \in 1..Len(txRows[k].category) : txRows[k].category[j] # " "
    /\ \E j \in 1..Len(txRows[k].description) : txRows[k].description[j] # " "

InitRoundTrip == RoundTripInit /\ GoalIdle /\ AcctIdle /\ TrIdle

SpecRoundTrip == InitRoundTrip /\ [][RoundTripNext]_vars

\* C11: an account or a transaction read back by findById of the id that
\* save assigned has the business fields of the entity that was saved.
C11_RoundTrip ==
  \A p \in Execs : proc[p].pc = "rtFound" =>
    LET q == proc[p] IN
    /\ q.data.accounts # <<>> =>
         /\ q.existing # NoRow
         /\ q.existing.userId = q.data.accounts[1].userId
         /\ q.existing.name = q.data.accounts[1].name
         /\ q.existing.type = q.data.accounts[1].type
         /\ q.existing.balance = q.data.accounts[1].balance
    /\ q.data.transactions # <<>> =>
         /\ q.existing # NoRow
         /\ q.existing.userId = q.data.transactions[1].userId
         /\ TxFields(q.existing) = TxFields(q.data.transactions[1])

InitTotals == TotalsInit /\ GoalIdle /\ AcctIdle /\ TrIdle

SpecTotals == InitTotals /\ [][TotalsNext]_vars

\* The sum of amount over the rows whose index is in S.
RECURSIVE C12_Sum(_)
C12_Sum(S) ==
  IF S = {} THEN 0
  ELSE LET k == CHOOSE k \in S : TRUE IN txRows[k].amount.v + C12_Sum(S \ {k})

\* The stored transactions of a user and a type dated from startDate to endDate.
C12_Rows(userId, type, startDate, endDate) ==
  {k \in 1..Len(txRows) :
     /\ txRows[k].userId = userId
     /\ txRows[k].type = type
     /\ startDate <= txRows[k].date
     /\ txRows[k].date <= endDate}

\* C12: getTotalIncome(userId, start, end) returns the sum of amount over
\* exactly the stored rows of that user, of type income, dated from start to
\* end, 0 when there is none; getTotalExpenses the same for type expense.
C12_TotalsOverMatchingRows ==
  \A p \in Execs :
    LET u == proc[p].summary IN
    (proc[p].pc = "queried" /\ u.startDate # 0 - 1 /\ u.endDate # 0 - 1) =>
      /\ u.op = "getTotalIncome" =>
           u.totalIncome = C12_Sum(C12_Rows(u.userId, "income", u.startDate, u.endDate))
      /\ u.op = "getTotalExpenses" =>
           u.totalExpenses = C12_Sum(C12_Rows(u.userId, "expense", u.startDate, u.endDate))

C12_Witness ==
  \E p \in Execs :
    LET u == proc[p].summary IN
    /\ proc[p].pc = "queried" /\ u.op = "getTotalIncome"
    /\ u.startDate = 2 /\ u.endDate = 2
    /\ Len(txRows) = 2
    /\ txRows[1].type = "income" /\ txRows[1].userId = 1 /\ txRows[1].date = 2
    /\ txRows[2].type = "income" /\ txRows[2].userId = 1 /\ txRows[2].date = 3
    /\ u.totalIncome = txRows[1].amount.v

InitSummary == SummaryInit /\ GoalIdle /\ AcctIdle /\ TrIdle

SpecSummary == InitSummary /\ [][SummaryNext]_vars

\* The sum of the amounts of the transactions of one type in a batch.
RECURSIVE C13_BatchSum(_, _)
C13_BatchSum(ts, type) ==
  IF ts = <<>> THEN 0
  ELSE (IF Head(ts).type = type THEN Head(ts).amount.v ELSE 0)
         + C13_BatchSum(Tail(ts), type)

\* Every transaction of the batch was saved and is dated inside the period.
C13_BatchPersistedInPeriod(q) ==
  /\ Len(q.transactionIds) = Len(q.data.transactions)
  /\ \A k \in 1..Len(q.data.transactions) :
       /\ q.summary.startDate <= q.data.transactions[k].day
       /\ q.data.transactions[k].day <= q.summary.endDate

\* C13: after execute has persisted a batch of transactions of one user dated
\* inside a period, with no other writes, the summary over that period has
\* totalIncome the sum of the batch's income amounts, totalExpenses the sum of
\* its expense amounts and netBalance = totalIncome - totalExpenses.
C13_SummaryMatchesBatch ==
  \A p \in Execs :
    LET q == proc[p] IN
    (q.pc = "summaryReturned" /\ C13_BatchPersistedInPeriod(q)) =>
      /\ q.summary.totalIncome = C13_BatchSum(q.data.transactions, "income")
      /\ q.summary.totalExpenses = C13_BatchSum(q.data.transactions, "expense")
      /\ q.summary.netBalance = q.summary.totalIncome - q.summary.totalExpenses

C13_Witness ==
  \E p \in Execs :
    LET q == proc[p] IN
    /\ q.pc = "summaryReturned" /\ C13_BatchPersistedInPeriod(q)
    /\ Len(q.data.transactions) = 2
    /\ q.data.transactions[1].type = "expense"
    /\ q.data.transactions[2].type = "income"
    /\ q.summary.totalIncome = 3 /\ q.summary.totalExpenses = 1
    /\ q.summary.netBalance = 2

InitHandler == HandlerInit /\ TrIdle /\ GoalIdle /\ AcctIdle

SpecHandler == InitHandler /\ [][HandlerNext]_vars

\* No call the handler made to its environment (Telegram, the file system,
\* the ports) failed.
HandlerEnvironmentOk(q) == q.h.failed = {} /\ tr.error \notin {"port"}

\* C14: when handleAudio has finished a voice or audio message and no call to
\* Telegram, the file system, the speech-to-text port or the extraction port
\* failed, the result reply that echoes the transcript has been sent and the
\* failure notice has not.
C14_ResultReplyWhenAllSucceed ==
  \A p \in Execs :
    LET q == proc[p] IN
      (q.pc = "hDone" /\ q.h.kind \in {"voice", "audio"} /\ q.h.fileSize = 1
         /\ HandlerEnvironmentOk(q))
        => /\ \E k \in 1..Len(q.h.replies) : q.h.replies[k] = "result"
           /\ \A k \in 1..Len(q.h.replies) : q.h.replies[k] # "failure"

\* C16: whenever handleAudio has terminated, on the success path or after a
\* failure at any step, the temporary audio file it wrote is no longer on disk.
C16_NoTempFileLeftBehind ==
  \A p \in Execs : proc[p].pc = "hDone" => ~proc[p].h.tempFile

\* C18: an extraction call whose model response is not parseable JSON fails:
\* it throws to its caller and returns no result, in particular not the empty
\* result with confidence 0.
C18_MalformedJsonFailsTheCall ==
  \A p \in Execs :
    proc[p].h.response = "malformed" => proc[p].pc = "portThrew"

\* The rows of the transactions table that the batch insert of p wrote.
LegacyRowsOf(p) == SelectSeq(txRows, LAMBDA r : r.by = p)

\* C17: insertExtractedFinancialData is all-or-nothing: when an insert of the
\* batch fails the call rejects and none of the batch's rows is persisted;
\* when every insert succeeds, a row is persisted for every eligible item and
\* the ids of these rows are returned.
C17_BatchAllOrNothing ==
  \A p \in Execs :
    LET q == proc[p]
        ins == LegacyInsertable(q.data)
    IN /\ q.pc = "insertFailed" => LegacyRowsOf(p) = <<>>
       /\ q.pc = "inserted" =>
            /\ ins.accounts = <<>> /\ ins.goals = <<>>
            /\ Len(LegacyRowsOf(p)) = Len(ins.transactions)
            /\ q.transactionIds = [k \in 1..Len(LegacyRowsOf(p)) |-> LegacyRowsOf(p)[k].id]
            /\ \A k \in 1..Len(ins.transactions) :
                 TxFields(LegacyRowsOf(p)[k]) = TxFields(ins.transactions[k])

\* A batch whose first transaction was inserted before a later insert failed.
C17_Witness ==
  \E p \in Execs : proc[p].pc = "insertFailed" /\ proc[p].h.pending >= 1

InitBatch == BatchInit /\ GoalIdle /\ AcctIdle /\ TrIdle

SpecBatch == InitBatch /\ [][BatchNext]_vars

InitLegacyHandler == LegacyHandlerInit /\ GoalIdle /\ AcctIdle /\ TrIdle

SpecLegacyHandler == InitLegacyHandler /\ [][LegacyHandlerNext]_vars

Sent(q, reply) == \E k \in 1..Len(q.h.replies) : q.h.replies[k] = reply

\* C15: when a step of the audio-handling chain has thrown, the handler does
\* not reject, it has sent the failure notice, and the user has received no
\* result message: neither the full reply nor a transcript-only reply.
C15_FailureNoticeAndNoPartialResult ==
  \A p \in Execs :
    LET q == proc[p] IN
      (q.pc = "lDone" /\ q.h.failed # {})
        => /\ ~q.h.rejected
           /\ Sent(q, "failure")
           /\ ~Sent(q, "result")
           /\ ~Sent(q, "transcript")

\* A handleAudio call that awaits the execute in progress.
AwaitingExecute ==
  [HandlerStart("voice", tr.request.userId) EXCEPT
     !.pc = "hExecute", !.h.replies = <<"processing", "transcribing">>,
     !.h.tempFile = TRUE, !.h.fileSize = tr.request.fileSize]

\* C19: when the speech-to-text call yields empty or whitespace-only text (or
\* fails for want of any), execute throws: it never returns a result whose
\* text is blank, and the handler awaiting it goes to its catch without a
\* call of the extraction.
C19_BlankTextFailsTranscription ==
  /\ tr.pc = "returned" => ~IsBlank(tr.text)
  /\ (IsBlank(tr.text) /\ tr.pc \in {"threw", "returned"}) =>
       /\ tr.pc = "threw"
       /\ \A failure \in TailFailures :
            /\ Transcribed(AwaitingExecute, tr, failure).pc = "hCatch"
            /\ Transcribed(AwaitingExecute, tr, failure).h.extractCalls = 0

\* The port returned whitespace-only text for a valid user and execute threw
\* from the Transcription entity.
C19_Witness ==
  /\ tr.pc = "threw" /\ tr.error = "entity" /\ tr.portCalls = 1
  /\ tr.request.userId = 1 /\ Len(tr.text) > 0 /\ IsBlank(tr.text)

\* No handleAudio call gets past the transcription: none sends the
\* "extracting" or the result reply, calls the extraction or fails at unlinkSync.
TailNeverReached ==
  \A p \in Execs :
    /\ ~Sent(proc[p], "extracting") /\ ~Sent(proc[p], "result")
    /\ proc[p].h.extractCalls = 0
    /\ "unlink" \notin proc[p].h.failed
    /\ tr.pc # "returned"

\* C21: every raw transaction that execute leaves out of its result is logged
\* with a warning: the number of 'Error mapping transaction entity' warnings
\* equals the number of skipped raw transactions.
C21_EverySkippedTransactionWarned ==
  \A p \in Execs :
    (proc[p].pc = "extracted" /\ proc[p].chain = "extract") =>
      proc[p].h.warnings
        = Len(proc[p].raw.transactions) - Len(proc[p].data.transactions)

InitListing == ListingInit /\ GoalIdle /\ AcctIdle /\ TrIdle

SpecListing == InitListing /\ [][ListingNext]_vars

\* s is sorted by business date descending and, among equal business dates,
\* by creation time descending.
SortedNewestFirst(s, column) ==
  \A i, j \in 1..Len(s) :
    i < j => \/ ColumnOf(s[i], column) > ColumnOf(s[j], column)
             \/ /\ ColumnOf(s[i], column) = ColumnOf(s[j], column)
                /\ s[i].createdAt >= s[j].createdAt

\* C23: every listing returns its rows sorted by business date descending
\* and, among equal business dates, by creation time descending: transaction
\* listings by transaction date, goal listings by target date.
C23_ListingsNewestFirst ==
  \A p \in Execs :
    proc[p].pc = "listed" =>
      /\ SortedNewestFirst(proc[p].data.transactions, "date")
      /\ SortedNewestFirst(proc[p].data.goals, "target_date")

InitDedup == DedupInit /\ GoalIdle /\ AcctIdle /\ TrIdle

SpecDedup == InitDedup /\ [][DedupNext]_vars

\* What an update of the balance leaves alone in a row.
DedupFrame(before, after) ==
  /\ after.id = before.id /\ after.userId = before.userId /\ after.name = before.name
  /\ after.type = before.type /\ after.bank = before.bank
  /\ after.isActive = before.isActive

\* C24: when an account of the same user and name exists, an incoming balance
\* that is undefined or equal to the stored one causes no write and the
\* existing id is returned; a balance that differs changes the balance of the
\* existing row only: its user, name, type, bank and active flag stay as they
\* were, whatever type and bank the incoming account carries.
C24_DedupWritesBalanceOnly ==
  [][\A p \in Execs :
       LET q == proc[p]
           a == q.data.accounts[q.i]
           m == Matching(acctRows, a.userId, a.name)
           stored == acctRows[Min(m)]
           found == proc'[p].calls[Len(proc'[p].calls)].ok
       IN /\ \A k \in 1..Len(acctRows) :
               /\ k <= Len(acctRows')
               /\ DedupFrame(acctRows[k], acctRows'[k])
          /\ (q.pc = "acctFind" /\ proc'[p] # q /\ m # {})
               => /\ acctRows' = acctRows
                  /\ proc'[p].pc # "acctSave"
                  /\ (found /\ (a.balance = Undefined
                                  \/ a.balance = ParseBalance(stored.balance)))
                       => /\ proc'[p].pc # "acctUpdate"
                          /\ proc'[p].accountIds = Append(q.accountIds, stored.id)
          /\ (q.pc = "acctUpdate" /\ proc'[p] # q)
               => /\ Len(acctRows') = Len(acctRows)
                  /\ \A k \in 1..Len(acctRows) :
                       acctRows[k].id # q.existing.id => acctRows'[k] = acctRows[k]]_vars

\* An update wrote a new balance for the stored account while the incoming
\* account had another type and bank.
C24_Witness ==
  \E p \in Execs :
    /\ Len(proc[p].calls) >= 2
    /\ proc[p].calls[Len(proc[p].calls)].op = "acct.update" /\ proc[p].calls[Len(proc[p].calls)].ok
    /\ acctRows[1].balance = Num(MaxAmount) /\ acctRows[1].type = "savings"
    /\ acctRows[1].bank = "itau"
    /\ \E k \in 1..Len(proc[p].data.accounts) :
         /\ proc[p].data.accounts[k].type = "checking"
         /\ proc[p].data.accounts[k].bank = "nubank"
         /\ proc[p].data.accounts[k].balance = Num(MaxAmount)

\* The message's extraction has returned a confidence of at most 0.3.
BelowGate(q) ==
  /\ q.chain = "legacyHandler" /\ q.h.extractCalls = 1
  /\ q.confidence.k = "num" /\ q.confidence.v <= ConfidenceGate

\* C25: extracted data is persisted only when its confidence is strictly
\* greater than 0.3. At a confidence of 0.3 or less, the 0 of a failed
\* extraction included, the handler never enters the save step (the batch
\* insert and the extraction log that follows it), no row of the message is
\* written, and the only result message is the transcript.
C25_NothingPersistedBelowGate ==
  \A p \in Execs :
    LET q == proc[p] IN
      BelowGate(q) =>
        /\ q.pc \notin {"legacyInsert", "inserted", "insertFailed"}
        /\ LegacyRowsOf(p) = <<>> /\ acctRows = <<>> /\ goalRows = <<>>
        /\ q.h.pending = 0
        /\ ~Sent(q, "result")
        /\ (q.pc = "lDone" /\ q.h.failed = {}) => q.h.replies = <<"processing", "transcript">>

\* A message with a valid transaction whose extraction returned exactly 0.3
\* has been answered.
C25_Witness ==
  \E p \in Execs :
    /\ BelowGate(proc[p]) /\ proc[p].confidence = Num(ConfidenceGate)
    /\ proc[p].h.response = "json" /\ Len(proc[p].data.transactions) >= 1
    /\ proc[p].pc = "lDone" /\ Sent(proc[p], "transcript")

InitConfidence == ConfidenceInit /\ GoalIdle /\ AcctIdle /\ TrIdle

SpecConfidence == InitConfidence /\ [][ConfidenceNext]_vars

InUnitInterval(c) == c.k = "num" /\ c.v >= 0 /\ c.v <= 100

\* C26: the confidence of every value produced by extraction lies in [0,1],
\* whatever the model wrote: the value the port returns and
\* ExtractFinancialDataUseCase.execute passes on, and the value
\* validateAndCleanData returns.
C26_ConfidenceInUnitInterval ==
  \A p \in Execs :
    LET q == proc[p] IN
      /\ (q.chain = "extract" /\ q.pc = "extracted") => InUnitInterval(q.confidence)
      /\ (q.chain = "legacy" /\ q.h.extractCalls = 1) => InUnitInterval(q.confidence)

\* C27: in every state of a goal, whatever the constructor accepted and
\* whatever mutators were called, markAsActive included, the status 'active'
\* implies currentAmount < targetAmount.
C27_ActiveBelowTarget ==
  goal.status = "active" => JsLt(goal.currentAmount, goal.targetAmount)

InitConcurrentHandlers == ConcurrentHandlersInit /\ GoalIdle /\ AcctIdle /\ TrIdle

SpecConcurrentHandlers == InitConcurrentHandlers /\ [][HandlerNext]_vars

\* The handler has composed the path of its temporary file and has not
\* returned.
UsesTempFile(q) == q.chain = "handler" /\ q.h.path # NoPath /\ q.pc # "hDone"

\* C28: two handleAudio invocations in flight at the same time, two messages
\* of one user included, use distinct temporary file paths.
C28_DistinctTempPaths ==
  \A p, o \in Execs :
    (p # o /\ UsesTempFile(proc[p]) /\ UsesTempFile(proc[o]))
      => proc[p].h.path # proc[o].h.path

\* C29: whenever the save step ends in the error branch and the user receives
\* the transcript-only fallback reply, no row of that message is persisted.
C29_FallbackOnlyWhenNotCommitted ==
  \A p \in Execs :
    LET q == proc[p] IN
      (q.chain = "legacyHandler" /\ Sent(q, "transcript") /\ q.h.failed # {})
        => LegacyRowsOf(p) = <<>>

InitPeriod == PeriodInit /\ GoalIdle /\ AcctIdle /\ TrIdle

SpecPeriod == InitPeriod /\ [][SummaryNext]_vars

\* C30: every summary execute returns has period.startDate <= period.endDate,
\* for every combination of a supplied and an omitted start and end.
C30_PeriodOrdered ==
  \A p \in Execs :
    proc[p].pc = "summaryReturned" => proc[p].summary.startDate <= proc[p].summary.endDate

====
